---- MODULE Spec2Model ----
(***************************************************************************)
(* Gmail Label Manager: the sheet <-> Gmail label synchronisation.         *)
(*                                                                         *)
(* The remote store (Gmail labels and the threads tagged with them) and    *)
(* the local store (the rows of the 'Labels' sheet) are the state.  The    *)
(* operations are the edit handler (onEditTrigger -> handleLabelChange ->  *)
(* createLabel / updateLabel / deleteLabel) and the full sync              *)
(* (syncAllLabels).  Each handler is one action; the remote calls and the  *)
(* sheet writes it issues are recorded, in order, in last.calls.           *)
(*                                                                         *)
(* A label name is a sequence of one-character strings, so that            *)
(* split('/') and the rebuilding of parent paths are computed, not assumed.*)
(***************************************************************************)
EXTENDS Integers, Sequences, FiniteSets, TLC

(* ------------------------------ bounds --------------------------------- *)
MaxOps == 1          \* operations per behaviour of Spec
MaxSyncs == 2        \* sync passes per behaviour of SpecSync
MaxRows == 2         \* data rows in the initial sheet
MaxRemote == 2       \* user labels in the initial remote store
MaxTagged == 2       \* threads tagged with a label in the initial store
MaxFailOcc == 2      \* a failure is injected at the 1st..MaxFailOcc-th call of a kind
MaxToggles == 2      \* settings items picked in SpecToggle
MaxThreads == 250    \* threads tagged with the renamed label in SpecBatch

(* --------------------------- program constants ------------------------- *)
HEADER_ROW == 1
BATCH_SIZE == 100

(* ------------------------------- names --------------------------------- *)
Empty == << >>
NameA == <<"a">>
NameB == <<"b">>
NameAB == <<"a", "/", "b">>
NameABC == <<"a", "/", "b", "/", "c">>
INBOX == <<"I", "N", "B", "O", "X">>
SENT == <<"S", "E", "N", "T">>
DRAFT == <<"D", "R", "A", "F", "T">>
TRASH == <<"T", "R", "A", "S", "H">>
SPAM == <<"S", "P", "A", "M">>
CATEGORY_ == <<"C", "A", "T", "E", "G", "O", "R", "Y", "_">>

UserNames == {NameA, NameB, NameAB, NameABC}
SystemNames == {INBOX}
AllNames == UserNames \cup SystemNames

\* the text setupLabelIdColumn writes into the header's id cell
LabelIdHeader == -1
\* an id cell holding an id that no remote label has (a drifted row)
StaleId == 99

Min(a, b) == IF a < b THEN a ELSE b

Range(s) == {s[i] : i \in 1..Len(s)}

\* String.prototype.includes for a single character
Includes(s, c) == \E i \in 1..Len(s) : s[i] = c

\* String.prototype.startsWith
StartsWith(s, p) == Len(s) >= Len(p) /\ SubSeq(s, 1, Len(p)) = p

\* String.prototype.split('/')
RECURSIVE Split(_)
Split(s) ==
  IF ~Includes(s, "/") THEN <<s>>
  ELSE LET k == CHOOSE i \in 1..Len(s) : s[i] = "/" /\ \A j \in 1..(i-1) : s[j] # "/"
       IN <<SubSeq(s, 1, k - 1)>> \o Split(SubSeq(s, k + 1, Len(s)))

\* (mutant) slice with an inclusive end index
SliceInclusive(s, i, j) == SubSeq(s, i + 1, Min(j + 1, Len(s)))

\* Array.prototype.slice(i, j) on a 0-based array
Slice(s, i, j) == SubSeq(s, i + 1, Min(j, Len(s)))

(* --------------------------- the two stores ---------------------------- *)
VARIABLES labels,   \* remote labels in listing order: [id, name, type]
          tags,     \* label id -> set of threads carrying the label
          sheet,    \* sheet rows, row 1 is the header: [id, name]
          nextId,   \* the id the remote store gives to the next new label
          ops,      \* operations performed so far
          last,     \* the last operation: inputs, pre-state, calls, reports
          run,      \* the running invocation, statement by statement
          settings  \* the autoSyncEnabled user property, the installed edit trigger

vars == <<labels, tags, sheet, nextId, ops, last, run, settings>>

\* a fresh installation: the property is unset, no edit trigger is installed
Fresh == [autoSyncEnabled |-> FALSE, editTrigger |-> FALSE]

\* no invocation is running
Idle ==
  [pc |-> "idle", op |-> "none", old |-> << >>, name |-> << >>, map |-> {}, made |-> {},
   lastRow |-> 0, row |-> 0, keys |-> << >>, k |-> 0, parts |-> << >>, i |-> 0,
   parentPath |-> << >>, after |-> "done", n |-> 0, j |-> 0, b |-> 0, faulty |-> FALSE]

BlankRow == [id |-> 0, name |-> Empty]

RowBlank(r) == r.id = 0 /\ r.name = Empty

\* Sheet.getLastRow(): the last row that has content
GetLastRow(sh) ==
  IF \A i \in 1..Len(sh) : RowBlank(sh[i]) THEN 0
  ELSE CHOOSE i \in 1..Len(sh) : ~RowBlank(sh[i]) /\ \A j \in (i+1)..Len(sh) : RowBlank(sh[j])

\* Range.getValue() of a cell; a cell outside the stored rows is blank
GetRow(sh, row) == IF row \in 1..Len(sh) THEN sh[row] ELSE BlankRow

\* a sheet padded with blank rows up to `row`
Pad(sh, row) == [i \in 1..(IF row > Len(sh) THEN row ELSE Len(sh)) |-> GetRow(sh, i)]

\* trailing blank rows carry no information
Trim(sh) == SubSeq(sh, 1, GetLastRow(sh))

NamesOf(ls) == {ls[i].name : i \in 1..Len(ls)}
IdsOf(ls) == {ls[i].id : i \in 1..Len(ls)}
SheetNames(sh) == {sh[i].name : i \in (HEADER_ROW + 1)..Len(sh)} \ {Empty}

\* the remote label carrying a name (names are unique in the remote store)
LabelOf(ls, name) == CHOOSE l \in Range(ls) : l.name = name

\* the remote id of a name, 0 when the name is absent
RemoteId(ls, name) == IF name \in NamesOf(ls) THEN LabelOf(ls, name).id ELSE 0

\* the threads of a set in enumeration order (ascending thread number)
ThreadSeq(S) ==
  IF S = {} THEN << >>
  ELSE LET mx == CHOOSE t \in S : \A u \in S : u <= t
       IN SelectSeq([i \in 1..mx |-> i], LAMBDA t : t \in S)

(* ----------------- the machine a handler runs on ----------------------- *)
(* A handler is a function from machine state to machine state.  `thrown`  *)
(* is an exception in flight: every statement is skipped while it is set,  *)
(* until a catch clears it.  `ret` is the value of the last call.          *)
(* failKind/failLeft inject the failure of one remote call: the            *)
(* failLeft-th call of kind failKind raises ("nopayload": the listing      *)
(* returns no label payload instead).                                      *)
FailKinds == {"none", "list", "nopayload", "create", "search", "getLabel", "add", "remove", "delete"}

\* the value of a call of a function that ends without a return statement
Undefined == [defined |-> FALSE]

Machine(ls, tg, sh, nid, fk, fo) ==
  [labels |-> ls, tags |-> tg, sheet |-> sh, nextId |-> nid,
   calls |-> << >>, reports |-> << >>, threads |-> << >>,
   thrown |-> FALSE, failed |-> FALSE, ret |-> 0, list |-> << >>, map |-> << >>,
   result |-> Undefined,
   failKind |-> fk, failLeft |-> fo]

Call(op, name, id, row, batch) == [op |-> op, name |-> name, id |-> id, row |-> row, batch |-> batch]
Rep(kind, name, n) == [kind |-> kind, name |-> name, n |-> n]

\* does this call of kind k raise?
Hits(m, k) == m.failKind = k /\ m.failLeft = 1
\* count one call of kind k
Tick(m, k) == IF m.failKind = k /\ m.failLeft > 0 THEN [m EXCEPT !.failLeft = @ - 1] ELSE m
Throw(m) == [m EXCEPT !.thrown = TRUE, !.failed = TRUE]

Report(m, r) == IF m.thrown THEN m ELSE [m EXCEPT !.reports = Append(@, r)]
\* catch (error) { logError(...); toast(...) }
Catch(m, r) == IF m.thrown THEN [m EXCEPT !.thrown = FALSE, !.reports = Append(@, r)] ELSE m

\* Gmail.Users.Labels.list('me'): m.ret = 1 and m.list = the labels, or m.ret = 0
LabelsList(m) ==
  IF m.thrown THEN m
  ELSE IF Hits(m, "list") THEN Throw(Tick(m, "list"))
  ELSE IF Hits(m, "nopayload")
       THEN [Tick(m, "nopayload") EXCEPT !.ret = 0, !.list = << >>, !.failed = TRUE]
  ELSE [Tick(Tick(m, "list"), "nopayload") EXCEPT !.ret = 1, !.list = m.labels]

\* GmailApp.createLabel(name): a new user label; a no-op when a user label of
\* that name exists; the name of a system label is rejected
GmailCreateLabel(m, name) ==
  IF m.thrown THEN m
  ELSE IF Hits(m, "create") THEN Throw(Tick(m, "create"))
  ELSE IF \E l \in Range(m.labels) : l.name = name /\ l.type = "system"
       THEN Throw(Tick(m, "create"))
  ELSE LET t == Tick(m, "create")
           fresh == name \notin NamesOf(m.labels)
       IN IF fresh
          THEN [t EXCEPT !.labels = Append(@, [id |-> m.nextId, name |-> name, type |-> "user"]),
                         !.tags = [i \in DOMAIN m.tags \cup {m.nextId} |->
                                     IF i = m.nextId THEN {} ELSE m.tags[i]],
                         !.nextId = @ + 1,
                         !.calls = Append(@, Call("create", name, m.nextId, 0, << >>))]
          ELSE [t EXCEPT !.calls = Append(@, Call("create", name, 0, 0, << >>))]

\* GmailApp.search('label:' + name): the threads carrying the label
GmailSearch(m, name) ==
  IF m.thrown THEN m
  ELSE IF Hits(m, "search") THEN Throw(Tick(m, "search"))
  ELSE [Tick(m, "search") EXCEPT
          !.threads = IF name \in NamesOf(m.labels)
                      THEN ThreadSeq(m.tags[RemoteId(m.labels, name)]) ELSE << >>]

\* GmailApp.getUserLabelByName(name): m.ret = the label's id, 0 (null) when
\* there is no user label of that name
GetUserLabelByName(m, name) ==
  IF m.thrown THEN m
  ELSE IF Hits(m, "getLabel") THEN Throw(Tick(m, "getLabel"))
  ELSE [Tick(m, "getLabel") EXCEPT
          !.ret = IF \E l \in Range(m.labels) : l.name = name /\ l.type = "user"
                  THEN RemoteId(m.labels, name) ELSE 0]

\* GmailLabel.addToThreads(batch)
AddToThreads(m, id, batch) ==
  IF m.thrown THEN m
  ELSE IF Hits(m, "add") THEN Throw(Tick(m, "add"))
  ELSE [Tick(m, "add") EXCEPT !.tags[id] = @ \cup Range(batch),
                              !.calls = Append(@, Call("add", Empty, id, 0, batch))]

\* GmailLabel.removeFromThreads(batch)
RemoveFromThreads(m, id, batch) ==
  IF m.thrown THEN m
  ELSE IF Hits(m, "remove") THEN Throw(Tick(m, "remove"))
  ELSE [Tick(m, "remove") EXCEPT !.tags[id] = @ \ Range(batch),
                                 !.calls = Append(@, Call("remove", Empty, id, 0, batch))]

\* GmailLabel.deleteLabel(): the label leaves the store and every thread
GmailDeleteLabel(m, id) ==
  IF m.thrown THEN m
  ELSE IF Hits(m, "delete") THEN Throw(Tick(m, "delete"))
  ELSE [Tick(m, "delete") EXCEPT
          !.labels = SelectSeq(@, LAMBDA l : l.id # id),
          !.tags = [i \in DOMAIN m.tags \ {id} |-> m.tags[i]],
          !.calls = Append(@, Call("delete", Empty, id, 0, << >>))]

\* (mutant) the id is logged as written but the cell keeps its value
SetIdLost(m, row, id) ==
  IF m.thrown THEN m
  ELSE [m EXCEPT !.calls = Append(@, Call("setId", Empty, id, row, << >>))]

\* Range.setValue(id) on the id cell of a row
SetId(m, row, id) ==
  IF m.thrown THEN m
  ELSE [m EXCEPT !.sheet = [Pad(m.sheet, row) EXCEPT ![row].id = id],
                 !.calls = Append(@, Call("setId", Empty, id, row, << >>))]

\* Range.setValue(name) on the name cell of a row
SetName(m, row, name) ==
  IF m.thrown THEN m
  ELSE [m EXCEPT !.sheet = [Pad(m.sheet, row) EXCEPT ![row].name = name],
                 !.calls = Append(@, Call("setName", name, 0, row, << >>))]

\* Range.clearContent() on the id cell of a row
ClearId(m, row) ==
  IF m.thrown THEN m
  ELSE [m EXCEPT !.sheet = [Pad(m.sheet, row) EXCEPT ![row].id = 0],
                 !.calls = Append(@, Call("clearId", Empty, 0, row, << >>))]

(* ------------------------- labelling.js -------------------------------- *)
\* labelMap[name] || null, with a missing key reading as 0
MapGet(map, name) == IF name \in DOMAIN map THEN map[name] ELSE 0

\* the loop "labelMap[label.name] = label.id": the last label of a name wins
MapOfList(ls) ==
  [n \in NamesOf(ls) |->
     ls[CHOOSE i \in 1..Len(ls) : ls[i].name = n /\ \A j \in (i+1)..Len(ls) : ls[j].name # n].id]

\* logDebug(...) on the first line of a handler: the handler is entered
Entered(m, kind, name) == Report(m, Rep(kind, name, 0))

\* "const x = <call>; <rest>": the rest of a handler, run on the machine
\* the call leaves
Bind(x, Rest(_)) == Rest(x)

\* (mutant) getLabelMap without its try/catch
GetLabelMapNoCatch(m) ==
  IF m.thrown THEN m
  ELSE Bind(LabelsList(m), LAMBDA r :
         IF r.thrown THEN r
         ELSE IF r.ret = 0
         THEN [Report(r, Rep("logError", Empty, 0)) EXCEPT !.map = << >>]
         ELSE [r EXCEPT !.map = MapOfList(r.list)])

\* getLabelMap(): m.map = name -> id; the empty map when the listing raises
\* or has no payload (the failure is logged, nothing propagates)
GetLabelMap(m) ==
  IF m.thrown THEN m
  ELSE Bind(LabelsList(m), LAMBDA r :
         IF r.thrown
         THEN [Catch(r, Rep("logError", Empty, 0)) EXCEPT !.map = << >>]
         ELSE IF r.ret = 0
         THEN [Report(r, Rep("logError", Empty, 0)) EXCEPT !.map = << >>]
         ELSE [r EXCEPT !.map = MapOfList(r.list)])

\* getLabelId(name): m.ret = the id, 0 (null) when not found
GetLabelId(m, name) ==
  IF m.thrown THEN m
  ELSE Bind(GetLabelMap(m), LAMBDA r : [r EXCEPT !.ret = MapGet(r.map, name)])

\* the sheetLabelMap loop: name -> the last row holding it
SheetLabelMap(sh, lastRow) ==
  LET rows == (HEADER_ROW + 1)..lastRow
      names == {GetRow(sh, r).name : r \in rows} \ {Empty}
  IN [n \in names |->
        CHOOSE r \in rows : GetRow(sh, r).name = n
                            /\ \A q \in rows : GetRow(sh, q).name = n => q <= r]

\* (mutant) the loop of addParentLabelsToSheet writes every parent row
\* directly below the last row
RECURSIVE ParentLoopSameRow(_, _, _, _)
ParentLoopSameRow(st, parts, lastRow, i) ==
  IF st.m.thrown \/ ~(i < Len(parts) - 1) THEN st.m
  ELSE LET parentPath == (IF st.parentPath # Empty THEN st.parentPath \o <<"/">> ELSE st.parentPath)
                         \o parts[i + 1]
           absent == parentPath \notin DOMAIN st.sheetLabelMap
           newRow == lastRow + 1
       IN Bind(GetLabelId(st.m, parentPath), LAMBDA m1 :
          Bind(IF m1.ret = 0
               THEN Report(GmailCreateLabel(m1, parentPath), Rep("parentCreated", parentPath, 0))
               ELSE m1, LAMBDA m2 :
            IF ~absent
            THEN ParentLoopSameRow([st EXCEPT !.m = m2, !.parentPath = parentPath], parts, lastRow, i + 1)
            ELSE Bind(GetLabelId(SetName(m2, newRow, parentPath), parentPath), LAMBDA m4 :
                   ParentLoopSameRow([m |-> IF m4.ret # 0 THEN SetId(m4, newRow, m4.ret) ELSE m4,
                               parentPath |-> parentPath,
                               parentsAdded |-> st.parentsAdded + 1,
                               sheetLabelMap |-> [n \in DOMAIN st.sheetLabelMap \cup {parentPath} |->
                                                    IF n = parentPath THEN newRow
                                                    ELSE st.sheetLabelMap[n]]],
                              parts, lastRow, i + 1))))

\* the body of the loop of addParentLabelsToSheet from index i on;
\* st = [m, parentPath, parentsAdded, sheetLabelMap]
RECURSIVE ParentLoop(_, _, _, _)
ParentLoop(st, parts, lastRow, i) ==
  IF st.m.thrown \/ ~(i < Len(parts) - 1) THEN st.m
  ELSE LET parentPath == (IF st.parentPath # Empty THEN st.parentPath \o <<"/">> ELSE st.parentPath)
                         \o parts[i + 1]
           absent == parentPath \notin DOMAIN st.sheetLabelMap
           newRow == lastRow + 1 + st.parentsAdded
       IN Bind(GetLabelId(st.m, parentPath), LAMBDA m1 :
          Bind(IF m1.ret = 0
               THEN Report(GmailCreateLabel(m1, parentPath), Rep("parentCreated", parentPath, 0))
               ELSE m1, LAMBDA m2 :
            IF ~absent
            THEN ParentLoop([st EXCEPT !.m = m2, !.parentPath = parentPath], parts, lastRow, i + 1)
            ELSE Bind(GetLabelId(SetName(m2, newRow, parentPath), parentPath), LAMBDA m4 :
                   ParentLoop([m |-> IF m4.ret # 0 THEN SetId(m4, newRow, m4.ret) ELSE m4,
                               parentPath |-> parentPath,
                               parentsAdded |-> st.parentsAdded + 1,
                               sheetLabelMap |-> [n \in DOMAIN st.sheetLabelMap \cup {parentPath} |->
                                                    IF n = parentPath THEN newRow
                                                    ELSE st.sheetLabelMap[n]]],
                              parts, lastRow, i + 1))))

\* (mutant) addParentLabelsToSheet catches what its loop raises
AddParentLabelsToSheetCaught(m, labelName) ==
  IF m.thrown \/ ~Includes(labelName, "/") THEN m
  ELSE LET lastRow == GetLastRow(m.sheet)
       IN Catch(ParentLoop([m |-> m, parentPath |-> Empty, parentsAdded |-> 0,
                            sheetLabelMap |-> SheetLabelMap(m.sheet, lastRow)],
                           Split(labelName), lastRow, 0),
                Rep("logError", labelName, 0))

\* addParentLabelsToSheet(sheet, labelName)
AddParentLabelsToSheet(m, labelName) ==
  IF m.thrown \/ ~Includes(labelName, "/") THEN m
  ELSE LET lastRow == GetLastRow(m.sheet)
       IN ParentLoop([m |-> m, parentPath |-> Empty, parentsAdded |-> 0,
                      sheetLabelMap |-> SheetLabelMap(m.sheet, lastRow)],
                     Split(labelName), lastRow, 0)

\* (mutant) the leaf is created before its parents are looked at
CreateLabelLeafFirst(m, row, labelName) ==
  IF m.thrown THEN m
  ELSE Catch(Bind(GetLabelId(Entered(m, "creating", labelName), labelName), LAMBDA m1 :
               IF m1.ret # 0
               THEN Report(SetId(m1, row, m1.ret), Rep("exists", labelName, 0))
               ELSE Bind(GetLabelId(AddParentLabelsToSheet(GmailCreateLabel(m1, labelName), labelName), labelName),
                         LAMBDA m4 :
                           IF m4.ret # 0
                           THEN Report(SetId(m4, row, m4.ret), Rep("created", labelName, 0))
                           ELSE Report(m4, Rep("noId", labelName, 0)))),
             Rep("error", labelName, 0))

\* (mutant) the parents are looked at before the existence check
CreateLabelParentsFirst(m, row, labelName) ==
  IF m.thrown THEN m
  ELSE Catch(Bind(GetLabelId(AddParentLabelsToSheet(Entered(m, "creating", labelName), labelName),
                             labelName), LAMBDA m1 :
               IF m1.ret # 0
               THEN Report(SetId(m1, row, m1.ret), Rep("exists", labelName, 0))
               ELSE Bind(GetLabelId(GmailCreateLabel(m1, labelName), labelName),
                         LAMBDA m4 :
                           IF m4.ret # 0
                           THEN Report(SetId(m4, row, m4.ret), Rep("created", labelName, 0))
                           ELSE Report(m4, Rep("noId", labelName, 0)))),
             Rep("error", labelName, 0))

\* (mutant) createLabel without its try/catch
CreateLabelNoCatch(m, row, labelName) ==
  IF m.thrown THEN m
  ELSE Bind(GetLabelId(Entered(m, "creating", labelName), labelName), LAMBDA m1 :
         IF m1.ret # 0
         THEN Report(SetId(m1, row, m1.ret), Rep("exists", labelName, 0))
         ELSE Bind(GetLabelId(GmailCreateLabel(AddParentLabelsToSheet(m1, labelName), labelName), labelName),
                   LAMBDA m4 :
                     IF m4.ret # 0
                     THEN Report(SetId(m4, row, m4.ret), Rep("created", labelName, 0))
                     ELSE Report(m4, Rep("noId", labelName, 0))))

\* createLabel(sheet, row, labelName)
CreateLabel(m, row, labelName) ==
  IF m.thrown THEN m
  ELSE Catch(Bind(GetLabelId(Entered(m, "creating", labelName), labelName), LAMBDA m1 :
               IF m1.ret # 0
               THEN Report(SetId(m1, row, m1.ret), Rep("exists", labelName, 0))
               ELSE Bind(GetLabelId(GmailCreateLabel(AddParentLabelsToSheet(m1, labelName), labelName), labelName),
                         LAMBDA m4 :
                           IF m4.ret # 0
                           THEN Report(SetId(m4, row, m4.ret), Rep("created", labelName, 0))
                           ELSE Report(m4, Rep("noId", labelName, 0)))),
             Rep("error", labelName, 0))

\* (mutant) the first batch loop catches a failing batch and goes on
RECURSIVE AddBatchesCaught(_, _, _, _)
AddBatchesCaught(m, threads, newLabel, i) ==
  IF m.thrown \/ ~(i < Len(threads)) THEN m
  ELSE LET batch == Slice(threads, i, i + BATCH_SIZE)
       IN AddBatchesCaught(IF Len(batch) > 0
                           THEN Catch(AddToThreads(m, newLabel, batch), Rep("logError", Empty, 0))
                           ELSE m,
                           threads, newLabel, i + BATCH_SIZE)

\* the first batch loop of updateLabel from offset i on
RECURSIVE AddBatches(_, _, _, _)
AddBatches(m, threads, newLabel, i) ==
  IF m.thrown \/ ~(i < Len(threads)) THEN m
  ELSE LET batch == Slice(threads, i, i + BATCH_SIZE)
       IN AddBatches(IF Len(batch) > 0 THEN AddToThreads(m, newLabel, batch) ELSE m,
                     threads, newLabel, i + BATCH_SIZE)

\* the second batch loop of updateLabel from offset i on
RECURSIVE RemoveBatches(_, _, _, _)
RemoveBatches(m, threads, oldLabel, i) ==
  IF m.thrown \/ ~(i < Len(threads)) THEN m
  ELSE LET batch == Slice(threads, i, i + BATCH_SIZE)
       IN RemoveBatches(IF Len(batch) > 0 THEN RemoveFromThreads(m, oldLabel, batch) ELSE m,
                        threads, oldLabel, i + BATCH_SIZE)

\* (mutant) the old label is removed from the threads before the new one is added
UpdateLabelRemoveFirst(m, row, oldLabelName, newLabelName) ==
  IF m.thrown THEN m
  ELSE Catch(Bind(GetLabelId(Entered(m, "updating", newLabelName), oldLabelName), LAMBDA m1 :
               IF m1.ret = 0 THEN CreateLabel(m1, row, newLabelName)
               ELSE Bind(GetLabelId(GmailCreateLabel(GmailSearch(AddParentLabelsToSheet(m1, newLabelName),
                                                                 oldLabelName),
                                                     newLabelName),
                                    newLabelName), LAMBDA m5 :
                    IF m5.thrown THEN m5
                    ELSE IF m5.ret = 0 THEN Report(m5, Rep("error", newLabelName, 0))
                    ELSE Bind(GetUserLabelByName(m5, oldLabelName), LAMBDA m6 :
                         Bind(GetUserLabelByName(m6, newLabelName), LAMBDA m7 :
                           LET newLabelId == m5.ret
                               oldLabel == m6.ret
                               newLabel == m7.ret
                               threads == m7.threads
                           IN IF m7.thrown THEN m7
                              ELSE IF oldLabel = 0 \/ newLabel = 0
                              THEN Report(m7, Rep("logError", newLabelName, 0))
                              ELSE Report(SetId(GmailDeleteLabel(AddBatches(RemoveBatches(m7, threads, oldLabel, 0),
                                               threads, newLabel, 0), oldLabel),
                                                row, newLabelId),
                                          Rep("renamed", newLabelName, 0)))))),
             Rep("error", newLabelName, 0))

\* (mutant) the old label is never deleted
UpdateLabelNoDelete(m, row, oldLabelName, newLabelName) ==
  IF m.thrown THEN m
  ELSE Catch(Bind(GetLabelId(Entered(m, "updating", newLabelName), oldLabelName), LAMBDA m1 :
               IF m1.ret = 0 THEN CreateLabel(m1, row, newLabelName)
               ELSE Bind(GetLabelId(GmailCreateLabel(GmailSearch(AddParentLabelsToSheet(m1, newLabelName),
                                                                 oldLabelName),
                                                     newLabelName),
                                    newLabelName), LAMBDA m5 :
                    IF m5.thrown THEN m5
                    ELSE IF m5.ret = 0 THEN Report(m5, Rep("error", newLabelName, 0))
                    ELSE Bind(GetUserLabelByName(m5, oldLabelName), LAMBDA m6 :
                         Bind(GetUserLabelByName(m6, newLabelName), LAMBDA m7 :
                           LET newLabelId == m5.ret
                               oldLabel == m6.ret
                               newLabel == m7.ret
                               threads == m7.threads
                           IN IF m7.thrown THEN m7
                              ELSE IF oldLabel = 0 \/ newLabel = 0
                              THEN Report(m7, Rep("logError", newLabelName, 0))
                              ELSE Report(SetId(RemoveBatches(AddBatches(m7, threads, newLabel, 0),
                                               threads, oldLabel, 0),
                                                row, newLabelId),
                                          Rep("renamed", newLabelName, 0)))))),
             Rep("error", newLabelName, 0))

\* (mutant) an old label without an id ends the handler
UpdateLabelNoFallback(m, row, oldLabelName, newLabelName) ==
  IF m.thrown THEN m
  ELSE Catch(Bind(GetLabelId(Entered(m, "updating", newLabelName), oldLabelName), LAMBDA m1 :
               IF m1.ret = 0 THEN m1
               ELSE Bind(GetLabelId(GmailCreateLabel(GmailSearch(AddParentLabelsToSheet(m1, newLabelName),
                                                                 oldLabelName),
                                                     newLabelName),
                                    newLabelName), LAMBDA m5 :
                    IF m5.thrown THEN m5
                    ELSE IF m5.ret = 0 THEN Report(m5, Rep("error", newLabelName, 0))
                    ELSE Bind(GetUserLabelByName(m5, oldLabelName), LAMBDA m6 :
                         Bind(GetUserLabelByName(m6, newLabelName), LAMBDA m7 :
                           LET newLabelId == m5.ret
                               oldLabel == m6.ret
                               newLabel == m7.ret
                               threads == m7.threads
                           IN IF m7.thrown THEN m7
                              ELSE IF oldLabel = 0 \/ newLabel = 0
                              THEN Report(m7, Rep("logError", newLabelName, 0))
                              ELSE Report(SetId(GmailDeleteLabel(RemoveBatches(AddBatches(m7, threads, newLabel, 0),
                                               threads, oldLabel, 0), oldLabel),
                                                row, newLabelId),
                                          Rep("renamed", newLabelName, 0)))))),
             Rep("error", newLabelName, 0))

\* updateLabel(sheet, row, oldLabelName, newLabelName)
UpdateLabel(m, row, oldLabelName, newLabelName) ==
  IF m.thrown THEN m
  ELSE Catch(Bind(GetLabelId(Entered(m, "updating", newLabelName), oldLabelName), LAMBDA m1 :
               IF m1.ret = 0 THEN CreateLabel(m1, row, newLabelName)
               ELSE Bind(GetLabelId(GmailCreateLabel(GmailSearch(AddParentLabelsToSheet(m1, newLabelName),
                                                                 oldLabelName),
                                                     newLabelName),
                                    newLabelName), LAMBDA m5 :
                    IF m5.thrown THEN m5
                    ELSE IF m5.ret = 0 THEN Report(m5, Rep("error", newLabelName, 0))
                    ELSE Bind(GetUserLabelByName(m5, oldLabelName), LAMBDA m6 :
                         Bind(GetUserLabelByName(m6, newLabelName), LAMBDA m7 :
                           LET newLabelId == m5.ret
                               oldLabel == m6.ret
                               newLabel == m7.ret
                               threads == m7.threads
                           IN IF m7.thrown THEN m7
                              ELSE IF oldLabel = 0 \/ newLabel = 0
                              THEN Report(m7, Rep("logError", newLabelName, 0))
                              ELSE Report(SetId(GmailDeleteLabel(RemoveBatches(AddBatches(m7, threads, newLabel, 0),
                                               threads, oldLabel, 0), oldLabel),
                                                row, newLabelId),
                                          Rep("renamed", newLabelName, 0)))))),
             Rep("error", newLabelName, 0))

\* (mutant) the label is deleted whether or not threads carry it
DeleteLabelNoGuard(m, row, labelName) ==
  IF m.thrown THEN m
  ELSE Catch(Bind(GetLabelId(Entered(m, "deleting", labelName), labelName), LAMBDA m1 :
               IF m1.ret = 0 THEN ClearId(m1, row)
               ELSE Bind(GetUserLabelByName(m1, labelName), LAMBDA m2 :
                    LET label == m2.ret
                    IN IF m2.thrown THEN m2
                       ELSE IF label = 0 THEN ClearId(m2, row)
                       ELSE Bind(GmailSearch(m2, labelName), LAMBDA m3 :
                         IF m3.thrown THEN m3
                         ELSE Report(ClearId(GmailDeleteLabel(m3, label), row), Rep("deleted", labelName, 0))))),
             Rep("error", labelName, 0))

\* (mutant) the id cell is cleared before the threads are looked at
DeleteLabelClearsId(m, row, labelName) ==
  IF m.thrown THEN m
  ELSE Catch(Bind(GetLabelId(Entered(m, "deleting", labelName), labelName), LAMBDA m1 :
               IF m1.ret = 0 THEN ClearId(m1, row)
               ELSE Bind(GetUserLabelByName(m1, labelName), LAMBDA m2 :
                    LET label == m2.ret
                    IN IF m2.thrown THEN m2
                       ELSE IF label = 0 THEN ClearId(m2, row)
                       ELSE Bind(GmailSearch(ClearId(m2, row), labelName), LAMBDA m3 :
                         IF m3.thrown THEN m3
                         ELSE IF Len(m3.threads) > 0
                         THEN SetName(Report(m3, Rep("conflict", labelName, Len(m3.threads))),
                                      row, labelName)
                         ELSE Report(GmailDeleteLabel(m3, label), Rep("deleted", labelName, 0))))),
             Rep("error", labelName, 0))

\* (mutant) the id cell is left as it is after the label is deleted
DeleteLabelKeepsId(m, row, labelName) ==
  IF m.thrown THEN m
  ELSE Catch(Bind(GetLabelId(Entered(m, "deleting", labelName), labelName), LAMBDA m1 :
               IF m1.ret = 0 THEN ClearId(m1, row)
               ELSE Bind(GetUserLabelByName(m1, labelName), LAMBDA m2 :
                    LET label == m2.ret
                    IN IF m2.thrown THEN m2
                       ELSE IF label = 0 THEN ClearId(m2, row)
                       ELSE Bind(GmailSearch(m2, labelName), LAMBDA m3 :
                         IF m3.thrown THEN m3
                         ELSE IF Len(m3.threads) > 0
                         THEN SetName(Report(m3, Rep("conflict", labelName, Len(m3.threads))),
                                      row, labelName)
                         ELSE Report(GmailDeleteLabel(m3, label), Rep("deleted", labelName, 0))))),
             Rep("error", labelName, 0))

\* (mutant) a label without an id ends the handler with the id cell untouched
DeleteLabelAbsentReturns(m, row, labelName) ==
  IF m.thrown THEN m
  ELSE Catch(Bind(GetLabelId(Entered(m, "deleting", labelName), labelName), LAMBDA m1 :
               IF m1.ret = 0 THEN m1
               ELSE Bind(GetUserLabelByName(m1, labelName), LAMBDA m2 :
                    LET label == m2.ret
                    IN IF m2.thrown THEN m2
                       ELSE IF label = 0 THEN ClearId(m2, row)
                       ELSE Bind(GmailSearch(m2, labelName), LAMBDA m3 :
                         IF m3.thrown THEN m3
                         ELSE IF Len(m3.threads) > 0
                         THEN SetName(Report(m3, Rep("conflict", labelName, Len(m3.threads))),
                                      row, labelName)
                         ELSE Report(ClearId(GmailDeleteLabel(m3, label), row), Rep("deleted", labelName, 0))))),
             Rep("error", labelName, 0))

\* deleteLabel(sheet, row, labelName)
DeleteLabel(m, row, labelName) ==
  IF m.thrown THEN m
  ELSE Catch(Bind(GetLabelId(Entered(m, "deleting", labelName), labelName), LAMBDA m1 :
               IF m1.ret = 0 THEN ClearId(m1, row)
               ELSE Bind(GetUserLabelByName(m1, labelName), LAMBDA m2 :
                    LET label == m2.ret
                    IN IF m2.thrown THEN m2
                       ELSE IF label = 0 THEN ClearId(m2, row)
                       ELSE Bind(GmailSearch(m2, labelName), LAMBDA m3 :
                         IF m3.thrown THEN m3
                         ELSE IF Len(m3.threads) > 0
                         THEN SetName(Report(m3, Rep("conflict", labelName, Len(m3.threads))),
                                      row, labelName)
                         ELSE Report(ClearId(GmailDeleteLabel(m3, label), row), Rep("deleted", labelName, 0))))),
             Rep("error", labelName, 0))

\* (mutant) the rename branch does not compare the two names
HandleLabelChangeNoCompare(m, row, oldLabelName, newLabelName) ==
  IF oldLabelName = Empty /\ newLabelName # Empty THEN CreateLabel(m, row, newLabelName)
  ELSE IF oldLabelName # Empty /\ newLabelName = Empty THEN DeleteLabel(m, row, oldLabelName)
  ELSE IF oldLabelName # Empty /\ newLabelName # Empty
  THEN UpdateLabel(m, row, oldLabelName, newLabelName)
  ELSE m

\* handleLabelChange(sheet, row, oldLabelName, newLabelName)
HandleLabelChange(m, row, oldLabelName, newLabelName) ==
  IF oldLabelName = Empty /\ newLabelName # Empty THEN CreateLabel(m, row, newLabelName)
  ELSE IF oldLabelName # Empty /\ newLabelName = Empty THEN DeleteLabel(m, row, oldLabelName)
  ELSE IF oldLabelName # Empty /\ newLabelName # Empty /\ oldLabelName # newLabelName
  THEN UpdateLabel(m, row, oldLabelName, newLabelName)
  ELSE m

(* ----------------------------- sync.js ---------------------------------- *)
\* the keys of sheetLabelMap in for-in order: each name at its first row
KeyOrder(sh, lastRow) ==
  LET rows == SelectSeq([i \in 1..lastRow |-> i],
                        LAMBDA r : r > HEADER_ROW /\ GetRow(sh, r).name # Empty
                                   /\ \A q \in (HEADER_ROW + 1)..(r - 1) :
                                         GetRow(sh, q).name # GetRow(sh, r).name)
  IN [k \in 1..Len(rows) |-> GetRow(sh, rows[k]).name]

\* (mutant) the parent loop starts at the second segment: "let i = 1"
RECURSIVE SyncParentLoopSkipRoot(_, _, _, _, _)
SyncParentLoopSkipRoot(m, parts, labelMap, parentPath, i) ==
  IF m.thrown \/ ~(i < Len(parts) - 1) THEN m
  ELSE LET path == (IF parentPath # Empty THEN parentPath \o <<"/">> ELSE parentPath)
                   \o parts[i + 1]
           m1 == IF MapGet(labelMap, path) = 0 /\ i > 0 THEN GmailCreateLabel(m, path) ELSE m
       IN SyncParentLoopSkipRoot(m1, parts, labelMap, path, i + 1)

\* the parent loop of syncAllLabels from index i on; labelMap is the
\* snapshot taken when the pass started
RECURSIVE SyncParentLoop(_, _, _, _, _)
SyncParentLoop(m, parts, labelMap, parentPath, i) ==
  IF m.thrown \/ ~(i < Len(parts) - 1) THEN m
  ELSE LET path == (IF parentPath # Empty THEN parentPath \o <<"/">> ELSE parentPath)
                   \o parts[i + 1]
           m1 == IF MapGet(labelMap, path) = 0 THEN GmailCreateLabel(m, path) ELSE m
       IN SyncParentLoop(m1, parts, labelMap, path, i + 1)

\* (mutant) the step 2 loop body without its try/catch
SyncOneNoCatch(m, labelName, row, labelMap) ==
  IF m.thrown THEN m
  ELSE LET labelId == MapGet(labelMap, labelName)
       IN IF labelId = 0
          THEN Bind(GetLabelId(GmailCreateLabel(IF Includes(labelName, "/")
                                                THEN SyncParentLoop(m, Split(labelName),
                                                                    labelMap, Empty, 0)
                                                ELSE m,
                                                labelName),
                               labelName), LAMBDA m3 :
                 IF m3.ret # 0 THEN SetId(m3, row, m3.ret) ELSE m3)
          ELSE SetId(m, row, labelId)

\* the body of the step 2 loop for one sheet label, with its try/catch
SyncOne(m, labelName, row, labelMap) ==
  IF m.thrown THEN m
  ELSE LET labelId == MapGet(labelMap, labelName)
       IN Catch(IF labelId = 0
                THEN Bind(GetLabelId(GmailCreateLabel(IF Includes(labelName, "/")
                                                      THEN SyncParentLoop(m, Split(labelName),
                                                                          labelMap, Empty, 0)
                                                      ELSE m,
                                                      labelName),
                                     labelName), LAMBDA m3 :
                       IF m3.ret # 0 THEN SetId(m3, row, m3.ret) ELSE m3)
                ELSE SetId(m, row, labelId),
                Rep("logError", labelName, 0))

\* step 2 of syncAllLabels from the k-th key on
RECURSIVE SyncSheetLoop(_, _, _, _, _)
SyncSheetLoop(m, keys, sheetLabelMap, labelMap, k) ==
  IF m.thrown \/ k > Len(keys) THEN m
  ELSE SyncSheetLoop(SyncOne(m, keys[k], sheetLabelMap[keys[k]], labelMap),
                     keys, sheetLabelMap, labelMap, k + 1)

\* (mutant) step 3 recognises the category prefix only
IsSystemLabelPrefixOnly(label) == StartsWith(label.name, CATEGORY_)

\* the test that skips system labels in step 3
IsSystemLabel(label) ==
  \/ label.type = "system"
  \/ StartsWith(label.name, CATEGORY_)
  \/ label.name \in {INBOX, SENT, DRAFT, TRASH, SPAM}

\* (mutant) step 3 does not skip the labels already in the spreadsheet
RECURSIVE SyncGmailLoopNoSkip(_, _, _, _, _)
SyncGmailLoopNoSkip(m, list, sheetLabelMap, lastRow, k) ==
  IF m.thrown \/ k > Len(list) THEN m
  ELSE IF IsSystemLabel(list[k])
  THEN SyncGmailLoopNoSkip(m, list, sheetLabelMap, lastRow, k + 1)
  ELSE SyncGmailLoopNoSkip(SetName(SetId(m, lastRow + 1, list[k].id), lastRow + 1, list[k].name),
                           list, sheetLabelMap, lastRow + 1, k + 1)

\* (mutant) step 3 writes the row before it advances lastRow
RECURSIVE SyncGmailLoopInPlace(_, _, _, _, _)
SyncGmailLoopInPlace(m, list, sheetLabelMap, lastRow, k) ==
  IF m.thrown \/ k > Len(list) THEN m
  ELSE IF IsSystemLabel(list[k]) \/ list[k].name \in DOMAIN sheetLabelMap
  THEN SyncGmailLoopInPlace(m, list, sheetLabelMap, lastRow, k + 1)
  ELSE SyncGmailLoopInPlace(SetName(SetId(m, lastRow, list[k].id), lastRow, list[k].name),
                            list, sheetLabelMap, lastRow + 1, k + 1)

\* step 3 of syncAllLabels from the k-th listed label on
RECURSIVE SyncGmailLoop(_, _, _, _, _)
SyncGmailLoop(m, list, sheetLabelMap, lastRow, k) ==
  IF m.thrown \/ k > Len(list) THEN m
  ELSE IF IsSystemLabel(list[k]) \/ list[k].name \in DOMAIN sheetLabelMap
  THEN SyncGmailLoop(m, list, sheetLabelMap, lastRow, k + 1)
  ELSE SyncGmailLoop(SetName(SetId(m, lastRow + 1, list[k].id), lastRow + 1, list[k].name),
                     list, sheetLabelMap, lastRow + 1, k + 1)

\* syncAllLabels(); m.result = what the call returns: the function ends
\* after the toast, without a return statement
SyncAllLabels(m) ==
  LET lastRow == GetLastRow(m.sheet)
      sheetLabelMap == SheetLabelMap(m.sheet, lastRow)
  IN Bind(GetLabelMap(m), LAMBDA m1 :
     Bind(LabelsList(SyncSheetLoop(m1, KeyOrder(m.sheet, lastRow), sheetLabelMap, m1.map, 1)),
          LAMBDA m3 :
            [Report(IF ~m3.thrown /\ m3.ret # 0
                    THEN SyncGmailLoop(m3, m3.list, sheetLabelMap, lastRow, 1)
                    ELSE m3,
                    Rep("synced", Empty, 0)) EXCEPT !.result = Undefined]))

(* ---------------------------- triggers.js ------------------------------- *)
SHEET_NAME == "Labels"
NAME_COLUMN == 2

LABEL_ID_COLUMN == 1

\* (mutant) onEditTrigger without the test of the column
OnEditTriggerAnyColumn(m, sheetName, row, column, oldValue, value) ==
  LET body == IF sheetName # SHEET_NAME THEN m
              ELSE IF row <= HEADER_ROW THEN m
              ELSE HandleLabelChange(m, row, oldValue, value)
  IN Catch(body, Rep("logError", Empty, 0))

\* onEditTrigger(e)
OnEditTrigger(m, sheetName, row, column, oldValue, value) ==
  LET body == IF sheetName # SHEET_NAME THEN m
              ELSE IF row <= HEADER_ROW THEN m
              ELSE IF column = NAME_COLUMN THEN HandleLabelChange(m, row, oldValue, value)
              ELSE m
  IN Catch(body, Rep("logError", Empty, 0))

(* ------------------------------- ui.js ---------------------------------- *)
\* showSyncResults(results): reading a property of undefined raises a
\* TypeError; otherwise the summary toast, and with changes the two lists
ShowSyncResults(m, results) ==
  IF m.thrown THEN m
  ELSE IF ~results.defined THEN [m EXCEPT !.thrown = TRUE]
  ELSE LET created == Len(results.createdInGmail)
           added == Len(results.addedToSheet)
           m1 == Report(m, Rep("autoSyncComplete", Empty, created + added))
           m2 == IF created > 0 THEN Report(m1, Rep("createdInGmail", Empty, created)) ELSE m1
       IN IF created + added > 0
          THEN (IF added > 0 THEN Report(m2, Rep("addedToSheet", Empty, added)) ELSE m2)
          ELSE m1

\* (mutant) the open hook syncs whatever the setting says
OnOpenAlwaysSync(m, autoSyncEnabled) ==
  Catch(Catch(Bind(SyncAllLabels(m), LAMBDA m1 : ShowSyncResults(m1, m1.result)),
              Rep("autoSyncFailed", Empty, 0)),
        Rep("logError", Empty, 0))

\* onOpenWithFullPermissions(): the menu, then the auto sync when enabled
OnOpenWithFullPermissions(m, autoSyncEnabled) ==
  LET auto == IF autoSyncEnabled
              THEN Catch(Bind(SyncAllLabels(m), LAMBDA m1 : ShowSyncResults(m1, m1.result)),
                         Rep("autoSyncFailed", Empty, 0))
              ELSE m
  IN Catch(auto, Rep("logError", Empty, 0))

(* ------------------------------ the system ------------------------------ *)
\* the listing order of the initial user labels
NameOrder == <<NameA, NameAB, NameABC, NameB>>

\* the remote store holding INBOX and the user labels of S
InitLabels(S) ==
  LET user == SelectSeq(NameOrder, LAMBDA n : n \in S)
  IN <<[id |-> 1, name |-> INBOX, type |-> "system"]>>
     \o [i \in 1..Len(user) |-> [id |-> i + 1, name |-> user[i], type |-> "user"]]

\* the injected failures: none, or the o-th call of a kind
Failures == {<<"none", 0>>} \cup ((FailKinds \ {"none"}) \X (1..MaxFailOcc))

NoOp == [kind |-> "none", row |-> 0, old |-> Empty, new |-> Empty,
         pre |-> [labels |-> << >>, tags |-> << >>, sheet |-> << >>, nextId |-> 0],
         calls |-> << >>, reports |-> << >>, threads |-> << >>,
         escaped |-> FALSE, failed |-> FALSE, returned |-> Undefined,
         prev |-> [kind |-> "none", failed |-> FALSE, escaped |-> FALSE, changes |-> 0]]

Header == [id |-> LabelIdHeader, name |-> Empty]

Init ==
  /\ \E S \in SUBSET UserNames :
        /\ Cardinality(S) <= MaxRemote
        /\ labels = InitLabels(S)
  /\ \E t \in IdsOf(labels) \cup {0} :
        tags = [i \in IdsOf(labels) |-> IF i = t THEN 1..MaxTagged ELSE {}]
  /\ \E k \in 0..MaxRows, drift \in BOOLEAN :
        \E names \in [1..k -> AllNames \cup {Empty}] :
           LET rows == [i \in 1..k |->
                          [id |-> IF drift THEN StaleId ELSE RemoteId(labels, names[i]),
                           name |-> names[i]]]
           IN /\ k > 0 => ~RowBlank(rows[k])
              /\ k = 0 => ~drift
              /\ sheet = <<Header>> \o rows
  /\ nextId = Len(labels) + 1
  /\ ops = 0
  /\ last = NoOp
  /\ run = Idle
  /\ settings = Fresh

\* the calls of a log that create a label or write a name cell
Changes(calls) == Len(SelectSeq(calls, LAMBDA c : (c.op = "create" /\ c.id # 0) \/ c.op = "setName"))

\* the state after a handler has run on machine m
Finish(m, kind, row, old, new) ==
  /\ labels' = m.labels
  /\ tags' = m.tags
  /\ sheet' = Trim(m.sheet)
  /\ nextId' = m.nextId
  /\ ops' = ops + 1
  /\ run' = run
  /\ settings' = settings
  /\ last' = [kind |-> kind, row |-> row, old |-> old, new |-> new,
              pre |-> [labels |-> labels, tags |-> tags, sheet |-> sheet, nextId |-> nextId],
              calls |-> m.calls, reports |-> m.reports, threads |-> m.threads,
              escaped |-> m.thrown, failed |-> m.failed, returned |-> m.result,
              prev |-> [kind |-> last.kind, failed |-> last.failed, escaped |-> last.escaped,
                        changes |-> Changes(last.calls)]]

\* the user edits the name cell of a row; the edit trigger fires
Edit ==
  /\ ops < MaxOps
  /\ \E row \in (HEADER_ROW + 1)..(GetLastRow(sheet) + 1), value \in AllNames \cup {Empty}, f \in Failures :
        LET old == GetRow(sheet, row).name
            edited == [Pad(sheet, row) EXCEPT ![row].name = value]
        IN Finish(OnEditTrigger(Machine(labels, tags, edited, nextId, f[1], f[2]),
                                SHEET_NAME, row, NAME_COLUMN, old, value),
                  "edit", row, old, value)

\* 'Sync All Labels' runs, as one of at most n operations
SyncPass(n) ==
  /\ ops < n
  /\ \E f \in Failures :
        Finish(SyncAllLabels(Machine(labels, tags, sheet, nextId, f[1], f[2])),
               "sync", 0, Empty, Empty)

\* the user runs 'Sync All Labels'
Sync == SyncPass(MaxOps)

\* the spreadsheet is opened; the installable open trigger fires
Open ==
  /\ ops < MaxOps
  /\ \E autoSyncEnabled \in BOOLEAN, f \in Failures :
        Finish(OnOpenWithFullPermissions(Machine(labels, tags, sheet, nextId, f[1], f[2]),
                                         autoSyncEnabled),
               IF autoSyncEnabled THEN "autoSync" ELSE "open", 0, Empty, Empty)

Next == Edit \/ Sync \/ Open

Spec == Init /\ [][Next]_vars

\* sync passes in succession, nothing else touching the stores
NextSync == SyncPass(MaxSyncs)

SpecSync == Init /\ [][NextSync]_vars

\* getLabelId(name) is called on the stores as they are; what it returns
\* and the map it read are kept with the operation
Lookup ==
  /\ ops < MaxOps
  /\ \E name \in AllNames, f \in Failures :
        LET m == GetLabelId(Machine(labels, tags, sheet, nextId, f[1], f[2]), name)
        IN Finish([m EXCEPT !.result = [defined |-> TRUE, id |-> m.ret, map |-> m.map]],
                  "lookup", 0, name, name)

NextLookup == Lookup

SpecLookup == Init /\ [][NextLookup]_vars

\* the sheets of the spreadsheet and the columns a user can type into
SheetTabs == {SHEET_NAME, "Notes"}
NOTES_COLUMN == 3
\* the failures injected into an edit of any cell: the first call of a kind
\* that a row change starts with
FirstFailures == {<<"none", 0>>, <<"list", 1>>, <<"create", 1>>}

\* the sheet after the user has typed value into (row, column) of a tab
Typed(sh, sheetName, row, column, value) ==
  IF sheetName # SHEET_NAME \/ column \notin {LABEL_ID_COLUMN, NAME_COLUMN} THEN sh
  ELSE IF column = NAME_COLUMN THEN [Pad(sh, row) EXCEPT ![row].name = value]
  ELSE [Pad(sh, row) EXCEPT ![row].id = IF value = Empty THEN 0 ELSE StaleId]

\* the user edits one cell of any tab, the header row included; the edit
\* trigger fires.  last.pre.sheet is the sheet as the trigger finds it.
EditAnywhere ==
  /\ ops < MaxOps
  /\ \E sheetName \in SheetTabs, row \in HEADER_ROW..(GetLastRow(sheet) + 1),
        column \in {LABEL_ID_COLUMN, NAME_COLUMN, NOTES_COLUMN},
        value \in AllNames \cup {Empty}, f \in FirstFailures :
        LET old == IF sheetName = SHEET_NAME /\ column = NAME_COLUMN
                   THEN GetRow(sheet, row).name ELSE Empty
            edited == Typed(sheet, sheetName, row, column, value)
            m == OnEditTrigger(Machine(labels, tags, edited, nextId, f[1], f[2]),
                               sheetName, row, column, old, value)
            inScope == sheetName = SHEET_NAME /\ row > HEADER_ROW /\ column = NAME_COLUMN
        IN /\ labels' = m.labels
           /\ tags' = m.tags
           /\ sheet' = Trim(m.sheet)
           /\ nextId' = m.nextId
           /\ ops' = ops + 1
           /\ run' = run
           /\ settings' = settings
           /\ last' = [NoOp EXCEPT !.kind = IF inScope THEN "editName" ELSE "editIgnored",
                                   !.row = row, !.old = old, !.new = value,
                                   !.pre = [labels |-> labels, tags |-> tags,
                                            sheet |-> edited, nextId |-> nextId],
                                   !.calls = m.calls, !.reports = m.reports,
                                   !.threads = m.threads, !.escaped = m.thrown,
                                   !.failed = m.failed, !.returned = m.result]

NextAnywhere == EditAnywhere

SpecAnywhere == Init /\ [][NextAnywhere]_vars

\* a row naming a label that carries 0..MaxThreads threads, then one edit
InitBatch ==
  /\ labels = InitLabels({NameA})
  /\ \E n \in 0..MaxThreads : tags = [i \in IdsOf(labels) |-> IF i = 2 THEN 1..n ELSE {}]
  /\ sheet = <<Header, [id |-> 2, name |-> NameA]>>
  /\ nextId = Len(labels) + 1
  /\ ops = 0
  /\ last = NoOp
  /\ run = Idle
  /\ settings = Fresh

NextBatch == Edit

SpecBatch == InitBatch /\ [][NextBatch]_vars

(* ------------------------- statement by statement ----------------------- *)
(* The control flow of one invocation of syncAllLabels or of                *)
(* handleLabelChange, a step per loop iteration or remote call.  run.pc is  *)
(* the statement the invocation is at; the loop variables are those of the  *)
(* code.  A remote call returns or raises; what it does to the stores is    *)
(* kept only as far as later tests and loop bounds read it (run.made, the   *)
(* names created so far).  run.faulty tells whether the remote service     *)
(* raises at all during the invocation.                                     *)

\* the outcomes of a remote call: it returns (FALSE) or raises (TRUE)
Raises == IF run.faulty THEN BOOLEAN ELSE {FALSE}

\* (mutant) the batch loop without its increment
AdvanceStuck(i) == i

\* i += BATCH_SIZE
Advance(i) == i + BATCH_SIZE

\* the names getLabelId finds during the invocation
Known == NamesOf(labels) \cup run.made

\* GmailApp.getUserLabelByName(name) returns a label object
UserLabel(name) ==
  \/ \E l \in Range(labels) : l.name = name /\ l.type = "user"
  \/ name \in run.made

\* GmailApp.search('label:' + name).length
ThreadCount(name) ==
  IF name \in NamesOf(labels) THEN Cardinality(tags[RemoteId(labels, name)]) ELSE 0

Completed == run.pc \in {"done", "raised"}

\* 'Sync All Labels' is invoked
StartSync ==
  /\ run.pc = "idle"
  /\ \E faulty \in BOOLEAN :
        run' = [Idle EXCEPT !.pc = "sync.map", !.op = "sync", !.lastRow = GetLastRow(sheet),
                            !.faulty = faulty]
  /\ UNCHANGED <<labels, tags, sheet, nextId, ops, last, settings>>

\* the user edits a name cell; onEditTrigger calls handleLabelChange
StartEdit ==
  /\ run.pc = "idle"
  /\ \E row \in (HEADER_ROW + 1)..(GetLastRow(sheet) + 1), value \in AllNames \cup {Empty},
        faulty \in BOOLEAN :
        LET old == GetRow(sheet, row).name
        IN /\ sheet' = [Pad(sheet, row) EXCEPT ![row].name = value]
           /\ run' = [Idle EXCEPT
                        !.old = old, !.name = value, !.faulty = faulty,
                        !.op = IF old = Empty /\ value # Empty THEN "create"
                               ELSE IF old # Empty /\ value = Empty THEN "delete"
                               ELSE IF old # Empty /\ value # Empty /\ old # value THEN "update"
                               ELSE "none",
                        !.pc = IF old = Empty /\ value # Empty THEN "create.lookup"
                               ELSE IF old # Empty /\ value = Empty THEN "delete.lookup"
                               ELSE IF old # Empty /\ value # Empty /\ old # value THEN "update.lookup"
                               ELSE "done"]
  /\ UNCHANGED <<labels, tags, nextId, ops, last, settings>>

\* the statements after addParentLabelsToSheet, or its loops when the name
\* is nested
EnterParents(r, labelName, after) ==
  IF Includes(labelName, "/")
  THEN [r EXCEPT !.pc = "parents.rows", !.after = after, !.name = labelName,
                 !.lastRow = GetLastRow(sheet), !.row = HEADER_ROW + 1]
  ELSE [r EXCEPT !.pc = after, !.name = labelName]

\* getLabelMap() at the start of a pass, getLabelId(name) at the start of a
\* handler: the listing succeeds (ok) or the lookup degrades to not found
LookupStep ==
  /\ run.pc \in {"sync.map", "create.lookup", "update.lookup", "delete.lookup"}
  /\ \E failed \in Raises :
        LET ok == ~failed
        IN
        run' = IF run.pc = "sync.map"
               THEN [run EXCEPT !.map = IF ok THEN NamesOf(labels) ELSE {},
                                !.pc = "sync.rows", !.row = HEADER_ROW + 1]
               ELSE IF run.pc = "create.lookup"
               THEN (IF ok /\ run.name \in Known THEN [run EXCEPT !.pc = "done"]
                     ELSE EnterParents(run, run.name, "create.leaf"))
               ELSE IF run.pc = "update.lookup"
               THEN (IF ok /\ run.old \in Known
                     THEN EnterParents(run, run.name, "update.search")
                     ELSE [run EXCEPT !.pc = "create.lookup"])
               ELSE (IF ok /\ run.old \in Known /\ UserLabel(run.old)
                     THEN [run EXCEPT !.pc = "delete.search"]
                     ELSE [run EXCEPT !.pc = "done"])
  /\ UNCHANGED <<labels, tags, sheet, nextId, ops, last, settings>>

\* one test of 'row <= lastRow' and, inside the loop, one body and row++
RowStep ==
  /\ run.pc \in {"sync.rows", "parents.rows"}
  /\ run' = IF run.row <= run.lastRow THEN [run EXCEPT !.row = @ + 1]
            ELSE IF run.pc = "sync.rows"
            THEN [run EXCEPT !.pc = "sync.keys", !.keys = KeyOrder(sheet, run.lastRow), !.k = 1]
            ELSE [run EXCEPT !.pc = "parents.segs", !.parts = Split(run.name),
                             !.i = 0, !.parentPath = Empty]
  /\ UNCHANGED <<labels, tags, sheet, nextId, ops, last, settings>>

\* one key of 'for (const labelName in sheetLabelMap)'
KeyStep ==
  /\ run.pc = "sync.keys"
  /\ run' = IF run.k > Len(run.keys) THEN [run EXCEPT !.pc = "sync.list"]
            ELSE LET labelName == run.keys[run.k]
                 IN IF labelName \in run.map THEN [run EXCEPT !.k = @ + 1]
                    ELSE IF Includes(labelName, "/")
                    THEN [run EXCEPT !.pc = "sync.segs", !.name = labelName,
                                     !.parts = Split(labelName), !.i = 0, !.parentPath = Empty]
                    ELSE [run EXCEPT !.pc = "sync.leaf", !.name = labelName]
  /\ UNCHANGED <<labels, tags, sheet, nextId, ops, last, settings>>

\* one test of 'i < parts.length - 1' and, inside the loop, one body and
\* i++; the create of a missing parent may raise into the enclosing catch
SegmentStep ==
  /\ run.pc \in {"sync.segs", "parents.segs"}
  /\ \E raised \in Raises :
        LET inSync == run.pc = "sync.segs"
            parentPath == (IF run.parentPath # Empty THEN run.parentPath \o <<"/">>
                           ELSE run.parentPath) \o run.parts[run.i + 1]
            absent == parentPath \notin (IF inSync THEN run.map ELSE Known)
        IN run' = IF ~(run.i < Len(run.parts) - 1)
                  THEN [run EXCEPT !.pc = IF inSync THEN "sync.leaf" ELSE run.after]
                  ELSE IF absent /\ raised
                  THEN (IF inSync THEN [run EXCEPT !.pc = "sync.keys", !.k = @ + 1]
                        ELSE [run EXCEPT !.pc = "done"])
                  ELSE [run EXCEPT !.i = @ + 1, !.parentPath = parentPath,
                                   !.made = IF absent THEN @ \cup {parentPath} ELSE @]
  /\ UNCHANGED <<labels, tags, sheet, nextId, ops, last, settings>>

\* a remote call outside the loops: it returns or raises
CallStep ==
  /\ run.pc \in {"sync.leaf", "sync.list", "create.leaf", "update.search", "update.create",
                 "update.delete", "delete.search"}
  /\ \E raised \in Raises :
        run' = IF run.pc = "sync.leaf"
               THEN [run EXCEPT !.pc = "sync.keys", !.k = @ + 1,
                                !.made = IF raised THEN @ ELSE @ \cup {run.name}]
               ELSE IF run.pc = "sync.list"
               THEN (IF raised THEN [run EXCEPT !.pc = "raised"]
                     ELSE [run EXCEPT !.pc = "sync.labels", !.j = 1,
                                      !.n = Len(labels) + Cardinality(run.made \ NamesOf(labels))])
               ELSE IF run.pc = "update.search"
               THEN (IF raised THEN [run EXCEPT !.pc = "done"]
                     ELSE [run EXCEPT !.pc = "update.create", !.n = ThreadCount(run.old)])
               ELSE IF run.pc = "update.create"
               THEN (IF raised \/ ~UserLabel(run.old) THEN [run EXCEPT !.pc = "done"]
                     ELSE [run EXCEPT !.pc = "update.add", !.b = 0,
                                      !.made = @ \cup {run.name}])
               ELSE [run EXCEPT !.pc = "done"]
  /\ UNCHANGED <<labels, tags, sheet, nextId, ops, last, settings>>

\* one label of 'for (const label of response.labels)'
LabelStep ==
  /\ run.pc = "sync.labels"
  /\ run' = IF run.j <= run.n THEN [run EXCEPT !.j = @ + 1] ELSE [run EXCEPT !.pc = "done"]
  /\ UNCHANGED <<labels, tags, sheet, nextId, ops, last, settings>>

\* one test of 'i < threads.length' and, inside the loop, one batch call
\* (which may raise) and i += BATCH_SIZE
BatchStep ==
  /\ run.pc \in {"update.add", "update.remove"}
  /\ \E raised \in Raises :
        run' = IF ~(run.b < run.n)
               THEN (IF run.pc = "update.add" THEN [run EXCEPT !.pc = "update.remove", !.b = 0]
                     ELSE [run EXCEPT !.pc = "update.delete"])
               ELSE IF raised THEN [run EXCEPT !.pc = "done"]
               ELSE [run EXCEPT !.b = Advance(@)]
  /\ UNCHANGED <<labels, tags, sheet, nextId, ops, last, settings>>

\* a row naming a label that carries 0..MaxThreads threads and a row naming
\* the system label, then one edit
InitRename ==
  /\ labels = InitLabels({NameA})
  /\ \E n \in 0..MaxThreads : tags = [i \in IdsOf(labels) |-> IF i = 2 THEN 1..n ELSE {}]
  /\ sheet = <<Header, [id |-> 2, name |-> NameA], [id |-> 1, name |-> INBOX]>>
  /\ nextId = Len(labels) + 1
  /\ ops = 0
  /\ last = NoOp
  /\ run = Idle
  /\ settings = Fresh

NextRename == Edit

SpecRename == InitRename /\ [][NextRename]_vars

\* toggleEditTrigger(): the edit trigger is deleted when installed and
\* installed otherwise, a toast, then the menu is refreshed by calling the
\* open hook
ToggleEditTrigger(m, st) ==
  Bind(Report(m, Rep(IF st.editTrigger THEN "triggerDisabled" ELSE "triggerEnabled", Empty, 0)),
       LAMBDA m1 : OnOpenWithFullPermissions(m1, st.autoSyncEnabled))

\* toggleAutoSync(): the property is set to the negation of what it reads
\* as, a toast, then the menu is refreshed by calling the open hook
ToggleAutoSync(m, st) ==
  LET enabled == ~st.autoSyncEnabled
  IN Bind(Report(m, Rep(IF enabled THEN "autoSyncEnabled" ELSE "autoSyncDisabled", Empty, 0)),
          LAMBDA m1 : OnOpenWithFullPermissions(m1, enabled))

\* the state after a menu item of the settings has run on machine m
Toggled(m, kind, after) ==
  /\ labels' = m.labels
  /\ tags' = m.tags
  /\ sheet' = Trim(m.sheet)
  /\ nextId' = m.nextId
  /\ ops' = ops + 1
  /\ UNCHANGED run
  /\ settings' = after
  /\ last' = [NoOp EXCEPT !.kind = kind,
                          !.pre = [labels |-> labels, tags |-> tags, sheet |-> sheet,
                                   nextId |-> nextId, settings |-> settings],
                          !.calls = m.calls, !.reports = m.reports, !.threads = m.threads,
                          !.escaped = m.thrown, !.failed = m.failed, !.returned = m.result]

\* the user picks 'Trigger On Spreadsheet Change'
MenuToggleEditTrigger ==
  /\ ops < MaxToggles
  /\ \E f \in FirstFailures :
        Toggled(ToggleEditTrigger(Machine(labels, tags, sheet, nextId, f[1], f[2]), settings),
                "toggleEditTrigger", [settings EXCEPT !.editTrigger = ~@])

\* the user picks 'Auto Sync On Startup'
MenuToggleAutoSync ==
  /\ ops < MaxToggles
  /\ \E f \in FirstFailures :
        Toggled(ToggleAutoSync(Machine(labels, tags, sheet, nextId, f[1], f[2]), settings),
                "toggleAutoSync", [settings EXCEPT !.autoSyncEnabled = ~@])

NextToggle == MenuToggleEditTrigger \/ MenuToggleAutoSync

\* the two settings items picked in any order, nothing else running
SpecToggle == Init /\ [][NextToggle]_vars

\* the stores an invocation starts on: no row has drifted, and one label
\* carries none, some or MaxThreads threads
InitSteps ==
  \/ /\ Init
     /\ \A r \in 1..Len(sheet) : sheet[r].id # StaleId
  \/ /\ InitBatch
     /\ Cardinality(tags[2]) \in {0, 1, BATCH_SIZE, BATCH_SIZE + 1, MaxThreads}

NextSteps ==
  \/ StartSync \/ StartEdit \/ LookupStep \/ RowStep \/ KeyStep
  \/ SegmentStep \/ CallStep \/ LabelStep \/ BatchStep

\* the host runs one invocation at a time and executes its next statement
SpecSteps == InitSteps /\ [][NextSteps]_vars /\ WF_vars(NextSteps)

(* ============================ properties ================================ *)
\* the last operation ran with every remote call succeeding
Clean == ~last.failed /\ ~last.escaped

\* the name cells of a sheet, row by row
NameCells(sh, n) == [i \in 1..n |-> GetRow(sh, i).name]

\* C1: a sync pass that directly follows a sync pass, with no remote call
\* failing in either, creates no remote label and appends no local row: it
\* issues no create call, writes no name cell, and leaves the remote labels
\* and the name cells as they were.
C1_SecondSyncIdle ==
  (last.kind = "sync" /\ last.prev.kind = "sync"
     /\ ~last.prev.failed /\ ~last.prev.escaped /\ Clean)
  => /\ \A i \in 1..Len(last.calls) : last.calls[i].op \notin {"create", "setName"}
     /\ labels = last.pre.labels
     /\ Len(sheet) = Len(last.pre.sheet)
     /\ NameCells(sheet, Len(sheet)) = NameCells(last.pre.sheet, Len(sheet))

\* a second clean pass after a first clean pass that created or appended
C1_Witness ==
  /\ last.kind = "sync" /\ last.prev.kind = "sync"
  /\ ~last.prev.failed /\ ~last.prev.escaped /\ Clean
  /\ last.prev.changes >= 2

\* C2: a sync pass, whatever fails in it, removes and renames nothing: every
\* remote label of the pre-state is still there with its name, id and
\* threads, every row of the pre-state keeps its name cell, and the pass
\* only creates remote labels, writes id cells of data rows and writes name
\* cells of rows below the last row of the pre-state.
C2_SyncOnlyAdds ==
  last.kind = "sync"
  => /\ Len(labels) >= Len(last.pre.labels)
     /\ SubSeq(labels, 1, Len(last.pre.labels)) = last.pre.labels
     /\ \A id \in DOMAIN last.pre.tags : tags[id] = last.pre.tags[id]
     /\ NameCells(sheet, Len(last.pre.sheet)) = NameCells(last.pre.sheet, Len(last.pre.sheet))
     /\ \A i \in 1..Len(last.calls) :
           LET c == last.calls[i]
           IN /\ c.op \in {"create", "setId", "setName"}
              /\ c.op = "setId" => c.row > HEADER_ROW
              /\ c.op = "setName" => c.row > Len(last.pre.sheet)

\* a pass that created a label, repaired an id and appended a row
C2_Witness ==
  /\ last.kind = "sync"
  /\ \E i, j, k \in 1..Len(last.calls) :
        /\ last.calls[i].op = "create" /\ last.calls[i].id # 0
        /\ last.calls[j].op = "setName"
        /\ last.calls[k].op = "setId" /\ last.calls[k].row <= Len(last.pre.sheet)
           /\ last.pre.sheet[last.calls[k].row].id = StaleId

\* the proper ancestor paths of a name: its prefixes that end before a '/'
ProperAncestors(name) == {SubSeq(name, 1, i - 1) : i \in {j \in 1..Len(name) : name[j] = "/"}}

\* C3 as stated: after a clean pass the remote names are exactly the names
\* the sheet or the remote store held before, and the sheet holds those
\* names except the system labels it did not hold before.
C3_UnionOnly ==
  (last.kind = "sync" /\ Clean)
  => LET local == SheetNames(last.pre.sheet)
         remote == NamesOf(last.pre.labels)
         sys == {l.name : l \in {x \in Range(last.pre.labels) : IsSystemLabel(x)}}
     IN /\ NamesOf(labels) = local \cup remote
        /\ SheetNames(sheet) = local \cup (remote \ sys)

\* C3 amended: after a clean pass the remote names are the names the sheet
\* or the remote store held before together with every proper ancestor
\* path of a sheet name that was absent remotely; the sheet holds its old
\* names and every remote name that is not a system label.
C3_UnionWithAncestors ==
  (last.kind = "sync" /\ Clean)
  => LET local == SheetNames(last.pre.sheet)
         remote == NamesOf(last.pre.labels)
         anc == UNION {ProperAncestors(n) : n \in local \ remote}
         sys == {l.name : l \in {x \in Range(labels) : IsSystemLabel(x)}}
     IN /\ NamesOf(labels) = local \cup remote \cup anc
        /\ SheetNames(sheet) = local \cup ((remote \cup anc) \ sys)

\* a clean pass that created a sheet name, an ancestor that neither store
\* held, and adopted a remote name
C3_Witness ==
  /\ last.kind = "sync" /\ Clean
  /\ LET local == SheetNames(last.pre.sheet)
         remote == NamesOf(last.pre.labels)
         anc == UNION {ProperAncestors(n) : n \in local \ remote}
     IN /\ anc \ (local \cup remote) # {}
        /\ (remote \cap UserNames) \ local # {}

\* C4 as stated: after a create or rename row change to a nested name, with
\* no remote call failing, every proper ancestor path of the name is a
\* remote label and a sheet row.
C4_AncestorsInBothStores ==
  (last.kind = "edit" /\ Clean /\ last.new # Empty /\ last.new # last.old
     /\ Includes(last.new, "/"))
  => \A a \in ProperAncestors(last.new) :
        a \in NamesOf(labels) /\ a \in SheetNames(sheet)

\* the row change is a delete intent on a remote label that carries threads
DeleteOfTagged ==
  /\ last.kind = "edit" /\ last.old # Empty /\ last.new = Empty
  /\ last.old \in NamesOf(last.pre.labels)
  /\ last.pre.tags[RemoteId(last.pre.labels, last.old)] # {}

\* C5 as stated: a delete intent on any label that carries a thread leaves
\* the remote labels and tags unchanged and restores the name cell.
C5_GuardEveryLabel ==
  DeleteOfTagged
  => /\ labels = last.pre.labels
     /\ tags = last.pre.tags
     /\ GetRow(sheet, last.row).name = last.old

\* C5 amended: a delete intent on a label that carries a thread leaves the
\* remote labels and tags unchanged, whatever fails; when the label is a
\* user label and the lookups (listing, label handle, thread search)
\* succeed, the name cell is restored to the label name.
C5_GuardUserLabel ==
  DeleteOfTagged
  => /\ labels = last.pre.labels
     /\ tags = last.pre.tags
     /\ (LabelOf(last.pre.labels, last.old).type = "user" /\ ~last.failed)
          => GetRow(sheet, last.row).name = last.old

\* a refused delete of a user label: the name cell was written back
C5_Witness ==
  /\ DeleteOfTagged /\ ~last.failed
  /\ LabelOf(last.pre.labels, last.old).type = "user"
  /\ \E i \in 1..Len(last.calls) : last.calls[i].op = "setName" /\ last.calls[i].row = last.row

\* C6: when a delete intent meets a user label that carries n >= 1 threads
\* and the lookups succeed, the delete is refused: the id cell of the row
\* keeps its value and exactly one conflict is reported, with count n; and
\* no conflict is ever reported with another count or in another case.
C6_RefusalKeepsIdReportsCount ==
  /\ (DeleteOfTagged /\ ~last.failed /\ LabelOf(last.pre.labels, last.old).type = "user")
       => /\ GetRow(sheet, last.row).id = GetRow(last.pre.sheet, last.row).id
          /\ Len(SelectSeq(last.reports, LAMBDA r : r.kind = "conflict")) = 1
  /\ \A i \in 1..Len(last.reports) :
        last.reports[i].kind = "conflict"
        => /\ DeleteOfTagged
           /\ last.reports[i].name = last.old
           /\ last.reports[i].n = Cardinality(last.pre.tags[RemoteId(last.pre.labels, last.old)])
           /\ GetRow(sheet, last.row).id = GetRow(last.pre.sheet, last.row).id

\* a refused delete on a row whose id cell held the label's id
C6_Witness ==
  /\ DeleteOfTagged
  /\ \E i \in 1..Len(last.reports) :
        last.reports[i].kind = "conflict" /\ last.reports[i].n = MaxTagged
  /\ GetRow(sheet, last.row).id = RemoteId(labels, last.old)

\* the row change is a rename intent whose old name is a remote label
RenameOfFound ==
  /\ last.kind = "edit" /\ last.old # Empty /\ last.new # Empty /\ last.old # last.new
  /\ last.old \in NamesOf(last.pre.labels)

\* the calls of the last operation with a given op
CallsOf(op) == SelectSeq(last.calls, LAMBDA c : c.op = op)

\* the id of the label a rename tags the threads with
NewLabelId ==
  IF last.new \in NamesOf(last.pre.labels) THEN RemoteId(last.pre.labels, last.new)
  ELSE IF \E i \in 1..Len(last.calls) : last.calls[i].op = "create" /\ last.calls[i].name = last.new
  THEN (CHOOSE c \in Range(last.calls) : c.op = "create" /\ c.name = last.new).id
  ELSE 0

\* the tags after the first k calls of the last operation
RECURSIVE TagsAfter(_)
TagsAfter(k) ==
  IF k = 0 THEN last.pre.tags
  ELSE LET tg == TagsAfter(k - 1)
           c == last.calls[k]
       IN IF c.op = "create" /\ c.id # 0
          THEN [i \in DOMAIN tg \cup {c.id} |-> IF i = c.id THEN {} ELSE tg[i]]
          ELSE IF c.op = "add" THEN [tg EXCEPT ![c.id] = @ \cup Range(c.batch)]
          ELSE IF c.op = "remove" THEN [tg EXCEPT ![c.id] = @ \ Range(c.batch)]
          ELSE IF c.op = "delete" THEN [i \in DOMAIN tg \ {c.id} |-> tg[i]]
          ELSE tg

\* the threads that carry the label with a given id
Carried(tg, id) == IF id \in DOMAIN tg THEN tg[id] ELSE {}

\* C7: in a rename of a label found remotely, every add batch is issued
\* before any remove batch and the old label is deleted after every batch;
\* once a remove batch is issued the add batches have covered every
\* enumerated thread, once the old label is deleted the remove batches have;
\* and after each call every enumerated thread carries the old or the new
\* label.
C7_AddsBeforeRemoves ==
  RenameOfFound
  => LET oldId == RemoteId(last.pre.labels, last.old)
         all == Range(last.threads)
     IN /\ \A i, j \in 1..Len(last.calls) :
              /\ (last.calls[i].op = "add" /\ last.calls[j].op = "remove") => i < j
              /\ (last.calls[i].op \in {"add", "remove"} /\ last.calls[j].op = "delete") => i < j
        /\ Len(CallsOf("remove")) > 0
             => UNION {Range(c.batch) : c \in Range(CallsOf("add"))} = all
        /\ Len(CallsOf("delete")) > 0
             => UNION {Range(c.batch) : c \in Range(CallsOf("remove"))} = all
        /\ \A c \in Range(CallsOf("add")) : c.id = NewLabelId
        /\ \A c \in Range(CallsOf("remove")) \cup Range(CallsOf("delete")) : c.id = oldId
        /\ \A k \in 0..Len(last.calls) :
              all \subseteq Carried(TagsAfter(k), oldId) \cup Carried(TagsAfter(k), NewLabelId)

\* a completed rename that needed three add and three remove batches
C7_Witness ==
  /\ RenameOfFound
  /\ Len(CallsOf("add")) = 3 /\ Len(CallsOf("remove")) = 3 /\ Len(CallsOf("delete")) = 1

\* the number of batches of n threads
BatchCount(n) == (n + BATCH_SIZE - 1) \div BATCH_SIZE

\* the k-th batch of the enumerated threads
BatchOf(threads, k) == SubSeq(threads, (k - 1) * BATCH_SIZE + 1, Min(k * BATCH_SIZE, Len(threads)))

\* C8: in a rename whose old label carries n threads, the k-th add call and
\* the k-th remove call carry the k-th run of BATCH_SIZE threads in
\* enumeration order (the last run the remainder); no more than
\* ceil(n / BATCH_SIZE) batches of a kind are issued, and a rename that
\* runs to the deletion of the old label has issued exactly that many of
\* each kind over exactly the threads that carried the old label, so none
\* when n = 0.
C8_BatchesPartitionThreads ==
  RenameOfFound
  => LET adds == CallsOf("add")
         removes == CallsOf("remove")
         n == Len(last.threads)
     IN /\ Len(adds) <= BatchCount(n) /\ Len(removes) <= BatchCount(n)
        /\ \A k \in 1..Len(adds) : adds[k].batch = BatchOf(last.threads, k)
        /\ \A k \in 1..Len(removes) : removes[k].batch = BatchOf(last.threads, k)
        /\ \A k \in 1..Len(adds) :
              /\ Len(adds[k].batch) <= BATCH_SIZE
              /\ Len(adds[k].batch) > 0
              /\ k < BatchCount(n) => Len(adds[k].batch) = BATCH_SIZE
        /\ Len(CallsOf("delete")) > 0
             => /\ Len(adds) = BatchCount(n) /\ Len(removes) = BatchCount(n)
                /\ last.threads = ThreadSeq(last.pre.tags[RemoteId(last.pre.labels, last.old)])

\* a completed rename of a label with 2 * BATCH_SIZE + 50 threads
C8_Witness ==
  /\ RenameOfFound /\ Len(CallsOf("delete")) = 1
  /\ Len(last.threads) = 2 * BATCH_SIZE + 50
  /\ Len(CallsOf("add")) = 3 /\ Len(CallsOf("add")[3].batch) = 50
  /\ Len(CallsOf("remove")) = 3 /\ Len(CallsOf("remove")[3].batch) = 50

\* the postcondition of a rename
Renamed ==
  LET oldId == RemoteId(last.pre.labels, last.old)
  IN /\ last.new \in NamesOf(labels)
     /\ last.old \notin NamesOf(labels)
     /\ oldId \notin DOMAIN tags
     /\ last.pre.tags[oldId] \subseteq tags[RemoteId(labels, last.new)]
     /\ GetRow(sheet, last.row).id = RemoteId(labels, last.new)

\* C9 as stated: after a rename whose old label is found remotely and in
\* which no remote call fails, the new label exists, the old one is gone,
\* its threads carry the new label and the id cell holds the new id.
C9_RenameOfAnyLabel == (RenameOfFound /\ Clean) => Renamed

\* C9 amended: the same, for an old label that is a user label and a new
\* name that is not the name of a system label.
C9_RenameOfUserLabel ==
  (RenameOfFound /\ Clean
     /\ LabelOf(last.pre.labels, last.old).type = "user"
     /\ ~\E l \in Range(last.pre.labels) : l.name = last.new /\ l.type = "system")
  => Renamed

\* a clean rename of a user label that carried threads
C9_Witness ==
  /\ RenameOfFound /\ Clean
  /\ LabelOf(last.pre.labels, last.old).type = "user"
  /\ last.pre.tags[RemoteId(last.pre.labels, last.old)] # {}
  /\ Len(CallsOf("delete")) = 1

\* the row change is a create intent for a nested name
CreateOfNested == last.kind = "edit" /\ last.old = Empty /\ Includes(last.new, "/")

\* C10: in a create intent for a nested name, when the remote create of
\* the leaf is issued every proper ancestor that was missing remotely has
\* been created before it, shallower ancestors first, and every ancestor
\* that was missing in the sheet has been written below the last row
\* before it; with no remote call failing the leaf create is issued when
\* the leaf was absent remotely, each appended ancestor row has received
\* the ancestor's remote id before the leaf create and still carries it,
\* and the edited row's id cell holds the leaf's id.
C10_AncestorsBeforeLeaf ==
  CreateOfNested
  => LET anc == ProperAncestors(last.new)
         n == Len(last.calls)
         leaf == {j \in 1..n : last.calls[j].op = "create" /\ last.calls[j].name = last.new}
         made(a) == {i \in 1..n : last.calls[i].op = "create" /\ last.calls[i].name = a
                                     /\ last.calls[i].id # 0}
         rowed(a) == {i \in 1..n : last.calls[i].op = "setName" /\ last.calls[i].name = a
                                      /\ last.calls[i].row > GetLastRow(last.pre.sheet)
                                      /\ last.calls[i].row > last.row}
     IN /\ \A j \in leaf : \A a \in anc :
              /\ a \in NamesOf(last.pre.labels) \/ \E i \in made(a) : i < j
              /\ a \in SheetNames(last.pre.sheet) \/ \E i \in rowed(a) : i < j
        /\ \A a, b \in anc : \A i \in made(a), j \in made(b) : Len(a) < Len(b) => i < j
        /\ Clean
             => /\ last.new \notin NamesOf(last.pre.labels) => leaf # {}
                /\ \A a \in anc : \A i \in rowed(a) :
                      GetRow(sheet, last.calls[i].row) = [id |-> RemoteId(labels, a), name |-> a]
                /\ \A j \in leaf : \A a \in anc \ SheetNames(last.pre.sheet) :
                      \E i \in rowed(a), k \in 1..n :
                        /\ i < k /\ k < j
                        /\ last.calls[k].op = "setId"
                        /\ last.calls[k].row = last.calls[i].row
                        /\ last.calls[k].id = RemoteId(labels, a)
                /\ GetRow(sheet, last.row) = [id |-> RemoteId(labels, last.new), name |-> last.new]

\* a clean create of a/b/c with both ancestors missing in both stores
C10_Witness ==
  /\ CreateOfNested /\ Clean /\ last.new = NameABC
  /\ NamesOf(last.pre.labels) \cap UserNames = {}
  /\ SheetNames(last.pre.sheet) = {}
  /\ {NameA, NameAB, NameABC} \subseteq NamesOf(labels)
  /\ {NameA, NameAB, NameABC} \subseteq SheetNames(sheet)

\* the handler the last edit was dispatched to: the first entry logged
Dispatched ==
  IF Len(last.reports) > 0 /\ last.reports[1].kind \in {"creating", "deleting", "updating"}
  THEN last.reports[1] ELSE Rep("none", Empty, 0)

\* C11: an edit of a name cell is dispatched to createLabel (on the new
\* name) exactly when old is empty and new is not, to deleteLabel (on the
\* old name) exactly when new is empty and old is not, to updateLabel
\* exactly when both are non-empty and differ; when old equals new no
\* handler is entered, no call is issued, and labels, tags and sheet are
\* as before.
C11_Classification ==
  last.kind = "edit"
  => /\ Dispatched.kind = "creating" <=> (last.old = Empty /\ last.new # Empty)
     /\ Dispatched.kind = "deleting" <=> (last.old # Empty /\ last.new = Empty)
     /\ Dispatched.kind = "updating"
          <=> (last.old # Empty /\ last.new # Empty /\ last.old # last.new)
     /\ Dispatched.kind = "creating" => Dispatched.name = last.new
     /\ Dispatched.kind = "deleting" => Dispatched.name = last.old
     /\ Dispatched.kind = "updating" => Dispatched.name = last.new
     /\ last.old = last.new
          => /\ last.calls = << >> /\ last.reports = << >>
             /\ labels = last.pre.labels /\ tags = last.pre.tags /\ sheet = last.pre.sheet

\* the name of a remote label that carries threads is typed again into
\* its own row
C11_Witness ==
  /\ last.kind = "edit" /\ last.old = last.new /\ last.old \in UserNames
  /\ last.old \in NamesOf(labels)
  /\ tags[RemoteId(labels, last.old)] # {}
  /\ GetRow(sheet, last.row).id = RemoteId(labels, last.old)

\* the row change is a create intent for a name that is a remote label
CreateOfExisting ==
  /\ last.kind = "edit" /\ last.old = Empty /\ last.new # Empty
  /\ last.new \in NamesOf(last.pre.labels)

\* C12: when a row is edited from empty to the name of a remote label and
\* no remote call fails, no create call is issued (for the name or for an
\* ancestor), labels and tags are as before, no row is appended, and the
\* row's id cell holds the id the store had for the name.
C12_AdoptExisting ==
  (CreateOfExisting /\ Clean)
  => /\ CallsOf("create") = << >>
     /\ labels = last.pre.labels /\ tags = last.pre.tags
     /\ last.calls = <<Call("setId", Empty, RemoteId(last.pre.labels, last.new), last.row, << >>)>>
     /\ GetRow(sheet, last.row) = [id |-> RemoteId(last.pre.labels, last.new), name |-> last.new]
     /\ \E i \in 1..Len(last.reports) : last.reports[i] = Rep("exists", last.new, 0)

\* a/b is a remote label, a is not, and a/b is typed into an empty row
\* whose id cell did not hold the id
C12_Witness ==
  /\ CreateOfExisting /\ Clean /\ last.new = NameAB
  /\ NameA \notin NamesOf(labels)
  /\ GetRow(last.pre.sheet, last.row).id # RemoteId(labels, NameAB)
  /\ GetRow(sheet, last.row).id = RemoteId(labels, NameAB)

\* the row change is a delete intent for a remote label no thread carries
DeleteOfUntagged ==
  /\ last.kind = "edit" /\ last.old # Empty /\ last.new = Empty
  /\ last.old \in NamesOf(last.pre.labels)
  /\ last.pre.tags[RemoteId(last.pre.labels, last.old)] = {}

\* the postcondition of a delete
Deleted ==
  LET id == RemoteId(last.pre.labels, last.old)
  IN /\ labels = SelectSeq(last.pre.labels, LAMBDA l : l.name # last.old)
     /\ tags = [i \in DOMAIN last.pre.tags \ {id} |-> last.pre.tags[i]]
     /\ GetRow(sheet, last.row) = BlankRow

\* C13 as stated: after a delete intent for a remote label that no thread
\* carries, with no remote call failing, the label has left the remote
\* store, and the row's id cell and name cell are empty.
C13_DeleteAnyUntagged == (DeleteOfUntagged /\ Clean) => Deleted

\* C13 amended: the same, for a user label.
C13_DeleteUserUntagged ==
  (DeleteOfUntagged /\ Clean /\ LabelOf(last.pre.labels, last.old).type = "user")
  => /\ Deleted
     /\ \E i \in 1..Len(last.reports) : last.reports[i] = Rep("deleted", last.old, 0)

\* a clean delete of a user label without threads whose row held its id
C13_Witness ==
  /\ DeleteOfUntagged /\ Clean /\ LabelOf(last.pre.labels, last.old).type = "user"
  /\ GetRow(last.pre.sheet, last.row).id = RemoteId(last.pre.labels, last.old)
  /\ Len(CallsOf("delete")) = 1
  /\ last.old \notin NamesOf(labels)

\* the row change is a delete intent for a name the remote store lacks
DeleteOfAbsent ==
  /\ last.kind = "edit" /\ last.old # Empty /\ last.new = Empty
  /\ last.old \notin NamesOf(last.pre.labels)

\* C14: after a delete intent for a name without an id in the remote
\* store, the only call issued is the clearing of the row's id cell: the
\* row is blank, every other row is as before, and labels and tags are
\* unchanged.
C14_DeleteAbsentClearsId ==
  DeleteOfAbsent
  => /\ last.calls = <<Call("clearId", Empty, 0, last.row, << >>)>>
     /\ GetRow(sheet, last.row) = BlankRow
     /\ sheet = Trim([last.pre.sheet EXCEPT ![last.row] = BlankRow])
     /\ labels = last.pre.labels /\ tags = last.pre.tags

\* the row named a label the store lacks and held a stale id
C14_Witness ==
  /\ DeleteOfAbsent
  /\ GetRow(last.pre.sheet, last.row) = [id |-> StaleId, name |-> last.old]
  /\ GetRow(sheet, last.row) = BlankRow
  /\ NamesOf(labels) \cap UserNames # {}

\* the row change is a rename intent whose old name the remote store lacks
RenameOfAbsent ==
  /\ last.kind = "edit" /\ last.old # Empty /\ last.new # Empty /\ last.old # last.new
  /\ last.old \notin NamesOf(last.pre.labels)

\* createLabel for the new name run on the row of the last edit, with the
\* o-th call of kind k failing
CreateInstead(k, o) ==
  CreateLabel(Machine(last.pre.labels, last.pre.tags,
                      [Pad(last.pre.sheet, last.row) EXCEPT ![last.row].name = last.new],
                      last.pre.nextId, k, o),
              last.row, last.new)

\* the last operation left the stores as machine c does, by the same calls
SameOutcome(c) ==
  /\ labels = c.labels /\ tags = c.tags /\ sheet = Trim(c.sheet)
  /\ last.calls = c.calls

\* C15: a rename intent whose old name is not a remote label issues no
\* add, remove or delete call and leaves labels, tags and sheet, by the
\* same sequence of calls, as createLabel for the new name on that row
\* does: as the failure-free createLabel when no remote call fails, and as
\* createLabel under some failure otherwise.
C15_RenameFallsBackToCreate ==
  RenameOfAbsent
  => /\ CallsOf("add") = << >> /\ CallsOf("remove") = << >> /\ CallsOf("delete") = << >>
     /\ Clean => SameOutcome(CreateInstead("none", 0))
     /\ \E f \in Failures : SameOutcome(CreateInstead(f[1], f[2]))

\* a clean rename from a name the store lacks to a/b/c, creating a/b/c
\* and an ancestor
C15_Witness ==
  /\ RenameOfAbsent /\ Clean /\ last.new = NameABC
  /\ NameAB \notin NamesOf(last.pre.labels)
  /\ {NameAB, NameABC} \subseteq NamesOf(labels)
  /\ GetRow(sheet, last.row) = [id |-> RemoteId(labels, NameABC), name |-> NameABC]

\* the names of the sheet the last pass created remotely
CreatedInGmail ==
  {c.name : c \in {d \in Range(CallsOf("create")) :
                     d.id # 0 /\ d.name \in SheetNames(last.pre.sheet)}}

\* the names the last pass appended to the sheet
AddedToSheet == {c.name : c \in Range(CallsOf("setName"))}

\* C16 as stated: a sync pass in which no remote call fails returns the
\* list of the sheet names it created remotely and the list of the remote
\* names it appended to the sheet, and the auto sync at open time shows the
\* summary of that result.
C16_SyncResultReturnedAndShown ==
  /\ (last.kind \in {"sync", "autoSync"} /\ Clean)
       => /\ last.returned.defined
          /\ Range(last.returned.createdInGmail) = CreatedInGmail
          /\ Range(last.returned.addedToSheet) = AddedToSheet
  /\ (last.kind = "autoSync" /\ Clean)
       => /\ \E i \in 1..Len(last.reports) :
                last.reports[i] = Rep("autoSyncComplete", Empty,
                                      Cardinality(CreatedInGmail) + Cardinality(AddedToSheet))
          /\ \A i \in 1..Len(last.reports) : last.reports[i].kind # "autoSyncFailed"

\* C17 as stated: after a sync pass in which no remote call fails, every
\* row with a non-empty name, rows sharing a name included, holds in its
\* id cell the id the remote store has for that name.
C17_IdsConsistent ==
  (last.kind = "sync" /\ Clean)
  => \A r \in (HEADER_ROW + 1)..GetLastRow(sheet) :
        GetRow(sheet, r).name # Empty
        => /\ GetRow(sheet, r).name \in NamesOf(labels)
           /\ GetRow(sheet, r).id = RemoteId(labels, GetRow(sheet, r).name)

\* C18 as stated: every remote create call of an operation in which no
\* remote call fails is for a name absent from the remote store at the
\* moment of the call.
C18_CreatesOnlyAbsentNames ==
  Clean => \A c \in Range(CallsOf("create")) : c.id # 0

\* a sync pass from the stores the last operation started on, with the
\* o-th call of kind k failing
SyncRun(k, o) ==
  SyncAllLabels(Machine(last.pre.labels, last.pre.tags, last.pre.sheet, last.pre.nextId, k, o))

\* the last operation is a sync pass in which a remote create failed
SyncWithFailedCreate ==
  /\ last.kind = "sync" /\ last.failed
  /\ \E o \in 1..MaxFailOcc :
        LET c == SyncRun("create", o)
        IN c.failed /\ SameOutcome(c) /\ last.reports = c.reports

\* the creates and id writes of step 2 among calls, without the ids
Step2Shape(calls) ==
  LET step2 == SelectSeq(calls, LAMBDA c : \/ c.op = "create"
                                           \/ c.op = "setId" /\ c.row <= GetLastRow(last.pre.sheet))
  IN [i \in 1..Len(step2) |-> <<step2[i].op, step2[i].name, step2[i].row>>]

\* s is t with one non-empty run of entries left out, each a create of
\* name X or of an ancestor of X, or the id write on the row of X
LeavesOutOnly(s, t, X) ==
  /\ Len(s) < Len(t)
  /\ \E i \in 0..Len(s) :
        LET n == Len(t) - Len(s)
        IN /\ SubSeq(t, 1, i) = SubSeq(s, 1, i)
           /\ SubSeq(t, i + n + 1, Len(t)) = SubSeq(s, i + 1, Len(s))
           /\ \A k \in (i + 1)..(i + n) :
                 \/ t[k][1] = "create" /\ t[k][2] \in ProperAncestors(X) \cup {X}
                 \/ t[k][1] = "setId" /\ GetRow(last.pre.sheet, t[k][3]).name = X

\* C19: when a remote create fails during a sync pass, the pass ends
\* normally; the failure is logged for one sheet name X; the creates and id
\* writes of step 2 are those of the failure-free pass without the rest of
\* the work on X; every other sheet name is a remote label whose id is in a
\* row of that name; and step 3 runs: every remote label that is not a
\* system label has a row, each appended row holding the label's id.
C19_SiblingIsolation ==
  SyncWithFailedCreate
  => /\ ~last.escaped
     /\ \E i \in 1..Len(last.reports) : last.reports[i] = Rep("synced", Empty, 0)
     /\ \E X \in SheetNames(last.pre.sheet) :
           /\ \E i \in 1..Len(last.reports) : last.reports[i] = Rep("logError", X, 0)
           /\ LeavesOutOnly(Step2Shape(last.calls), Step2Shape(SyncRun("none", 0).calls), X)
           /\ \A Y \in SheetNames(last.pre.sheet) \ {X} :
                 /\ Y \in NamesOf(labels)
                 /\ \E r \in (HEADER_ROW + 1)..GetLastRow(last.pre.sheet) :
                       GetRow(sheet, r) = [id |-> RemoteId(labels, Y), name |-> Y]
     /\ \A l \in Range(labels) : ~IsSystemLabel(l) => l.name \in SheetNames(sheet)
     /\ \A r \in (GetLastRow(last.pre.sheet) + 1)..GetLastRow(sheet) :
           /\ GetRow(sheet, r).name \in NamesOf(labels)
           /\ GetRow(sheet, r).id = RemoteId(labels, GetRow(sheet, r).name)

\* the create of an ancestor failed for one name, another name was
\* created after it, and step 3 appended a row
C19_Witness ==
  /\ SyncWithFailedCreate
  /\ \E X, Y \in SheetNames(last.pre.sheet) :
        /\ X # Y /\ Includes(X, "/")
        /\ \E i \in 1..Len(last.reports) : last.reports[i] = Rep("logError", X, 0)
        /\ X \notin NamesOf(labels)
        /\ Y \notin NamesOf(last.pre.labels) /\ Y \in NamesOf(labels)
  /\ GetLastRow(sheet) > GetLastRow(last.pre.sheet)

\* the edit trigger run again on the last edit, with the o-th call of
\* kind k failing
EditRun(k, o) ==
  OnEditTrigger(Machine(last.pre.labels, last.pre.tags,
                        [Pad(last.pre.sheet, last.row) EXCEPT ![last.row].name = last.new],
                        last.pre.nextId, k, o),
                SHEET_NAME, last.row, NAME_COLUMN, last.old, last.new)

\* the calls that raise into the catch of the handler
RaisingKinds == {"create", "search", "getLabel", "add", "remove", "delete"}

\* C20: the edit trigger returns normally on every edit, whatever remote
\* call fails; a failure leaves an error report, and a call that raised in
\* createLabel, updateLabel or deleteLabel ends the handler with the error
\* toast naming the label it worked on.
C20_NoEscapeFromEdit ==
  last.kind = "edit"
  => /\ ~last.escaped
     /\ last.failed
          => /\ \E i \in 1..Len(last.reports) : last.reports[i].kind \in {"error", "logError"}
             /\ \/ last.reports[Len(last.reports)]
                     = Rep("error", IF last.new = Empty THEN last.old ELSE last.new, 0)
                \/ \A k \in RaisingKinds, o \in 1..MaxFailOcc :
                      LET c == EditRun(k, o)
                      IN ~(c.failed /\ SameOutcome(c) /\ last.reports = c.reports)

\* the create of a/b failed after its ancestor a had been created
C20_Witness ==
  /\ last.kind = "edit" /\ last.failed /\ last.old = Empty /\ last.new = NameAB
  /\ NameA \notin NamesOf(last.pre.labels) /\ NameA \in NamesOf(labels)
  /\ NameAB \notin NamesOf(labels)
  /\ last.reports[Len(last.reports)] = Rep("error", NameAB, 0)

\* C21 as stated: a sync pass returns normally, whatever remote call
\* fails, the listing at its start and the listing before step 3 included.
C21_NoEscapeFromSync == last.kind = "sync" => ~last.escaped

\* C22: getLabelId never raises; when the listing raises or carries no
\* labels, the map read is empty, the name is not found, the failure is
\* logged once and the stores are untouched; when the listing succeeds the
\* map holds every remote label's id and nothing is logged.
C22_ListingFailureDegrades ==
  last.kind = "lookup"
  => /\ ~last.escaped
     /\ labels = last.pre.labels /\ tags = last.pre.tags /\ sheet = last.pre.sheet
     /\ last.calls = << >>
     /\ last.failed
          => /\ DOMAIN last.returned.map = {}
             /\ last.returned.id = 0
             /\ last.reports = <<Rep("logError", Empty, 0)>>
     /\ ~last.failed
          => /\ DOMAIN last.returned.map = NamesOf(labels)
             /\ \A n \in NamesOf(labels) : last.returned.map[n] = RemoteId(labels, n)
             /\ last.returned.id = (IF last.old \in NamesOf(labels)
                                    THEN RemoteId(labels, last.old) ELSE 0)
             /\ last.reports = << >>

\* the name looked up is a remote user label and the listing failed
C22_Witness ==
  /\ last.kind = "lookup" /\ last.failed
  /\ last.old \in NamesOf(labels) \cap UserNames
  /\ last.returned.id = 0
  /\ ~last.escaped


\* a label the core must leave alone: of type system, or named with the
\* category prefix, or with one of the reserved names
Reserved(l) ==
  \/ l.type = "system"
  \/ StartsWith(l.name, CATEGORY_)
  \/ l.name \in {INBOX, SENT, DRAFT, TRASH, SPAM}

ReservedNames(ls) == {l.name : l \in {x \in Range(ls) : Reserved(x)}}

C24_OutOfScopeEditIgnored ==
  last.kind = "editIgnored"
  => /\ last.calls = << >>
     /\ last.reports = << >>
     /\ ~last.failed /\ ~last.escaped
     /\ sheet = Trim(last.pre.sheet)
     /\ labels = last.pre.labels
     /\ tags = last.pre.tags

\* a name typed into the header row of the label sheet, the stores holding a
\* row that a sync or an in-scope edit would act on
C24_Witness ==
  /\ last.kind = "editIgnored"
  /\ last.new \in UserNames \ NamesOf(labels)
  /\ last.calls = << >>


\* the last operation left the stores and the call log of the sync pass c,
\* and logged what c logged before anything else
RanSync(c) ==
  /\ labels = c.labels /\ tags = c.tags /\ sheet = Trim(c.sheet)
  /\ last.calls = c.calls
  /\ Len(last.reports) >= Len(c.reports)
  /\ SubSeq(last.reports, 1, Len(c.reports)) = c.reports
  /\ c.thrown => last.reports = Append(c.reports, Rep("autoSyncFailed", Empty, 0))

\* C25: the open hook with the setting off runs no sync: nothing is called,
\* logged or changed.  With the setting on it runs one sync pass on the
\* stores as they are, and when that pass raises, the hook reports
\* 'Auto sync failed' and returns normally.
C25_AutoSyncIffEnabled ==
  /\ last.kind = "open"
       => /\ last.calls = << >> /\ last.reports = << >>
          /\ ~last.failed /\ ~last.escaped
          /\ labels = last.pre.labels /\ tags = last.pre.tags /\ sheet = last.pre.sheet
  /\ last.kind = "autoSync"
       => /\ ~last.escaped
          /\ \/ ~last.failed /\ RanSync(SyncRun("none", 0))
             \/ \E f \in Failures : RanSync(SyncRun(f[1], f[2]))

\* the setting is on and the pass raised before step 3, which would have
\* appended a row for a remote label that no row names
C25_Witness ==
  /\ last.kind = "autoSync" /\ last.failed
  /\ (NamesOf(labels) \cap UserNames) \ SheetNames(sheet) # {}
  /\ \A i \in 1..Len(last.reports) : last.reports[i].kind # "synced"
  /\ last.reports[Len(last.reports)] = Rep("autoSyncFailed", Empty, 0)
  /\ ~last.escaped

\* C26 as stated: the create calls of one sync pass name pairwise distinct
\* paths, shared and listed ancestors included.
C26_OneCreatePerName ==
  last.kind = "sync"
  => \A i, j \in 1..Len(last.calls) :
        (i < j /\ last.calls[i].op = "create" /\ last.calls[j].op = "create")
          => last.calls[i].name # last.calls[j].name


\* the proper ancestors of the new name that the remote store lacks after
\* the last edit
MissingAncestors == ProperAncestors(last.new) \ NamesOf(labels)

\* the last edit is a create or rename intent for a nested name in which
\* the remote create of an ancestor failed
AncestorCreateFailed ==
  /\ last.kind = "edit" /\ last.failed
  /\ last.new # Empty /\ last.new # last.old /\ Includes(last.new, "/")
  /\ \E o \in 1..MaxFailOcc :
        LET c == EditRun("create", o)
        IN c.failed /\ SameOutcome(c) /\ last.reports = c.reports
  /\ MissingAncestors # {}

\* C27: when the remote create of an ancestor fails in a create or rename
\* intent for a nested name, every shallower ancestor is a remote label and
\* names a row, a row appended for it carries its remote id, no remote
\* label is removed, the leaf is not created, and the handler logs the
\* error and returns normally.
C27_NoRollbackOfAncestors ==
  AncestorCreateFailed
  => /\ \A a \in ProperAncestors(last.new) :
           (\A b \in MissingAncestors : Len(a) < Len(b))
             => /\ a \in NamesOf(labels)
                /\ \E r \in (HEADER_ROW + 1)..Len(sheet) :
                      /\ sheet[r].name = a
                      /\ a \notin SheetNames(last.pre.sheet) => sheet[r].id = RemoteId(labels, a)
     /\ NamesOf(last.pre.labels) \subseteq NamesOf(labels)
     /\ \A i \in 1..Len(last.calls) :
           /\ last.calls[i].op # "delete"
           /\ last.calls[i].op = "create" => last.calls[i].name # last.new
     /\ last.new \in NamesOf(labels) <=> last.new \in NamesOf(last.pre.labels)
     /\ last.reports[Len(last.reports)] = Rep("error", last.new, 0)
     /\ ~last.escaped

\* the create of a/b failed after a had been created and given a row
C27_Witness ==
  /\ AncestorCreateFailed
  /\ \E a \in ProperAncestors(last.new) :
        /\ a \notin NamesOf(last.pre.labels) /\ a \in NamesOf(labels)
        /\ a \notin SheetNames(last.pre.sheet) /\ a \in SheetNames(sheet)


\* C28: every invocation of syncAllLabels and of handleLabelChange, once
\* started, reaches its end or raises: the loops over rows, keys, path
\* segments, listed labels and thread batches are all left.
C28_InvocationsTerminate == (run.pc # "idle") ~> Completed

\* a rename of a label carrying MaxThreads threads that has left both batch
\* loops
C28_Witness ==
  /\ run.pc = "done" /\ run.op = "update"
  /\ run.n = MaxThreads /\ run.b >= run.n
  /\ ~run.faulty

\* the id cell of the edited row matched the remote id of the old name
\* (an empty cell for an empty or unknown name)
IdMatchedBefore ==
  GetRow(last.pre.sheet, last.row).id = RemoteId(last.pre.labels, last.old)

\* C29 as stated: after a row change on a row whose id cell matched, with
\* no remote call failing, the id cell is the remote id of the name now in
\* the name cell, and is empty when the name cell is empty.
C29_RowIdFollowsName ==
  (last.kind = "edit" /\ Clean /\ IdMatchedBefore)
  => LET r == GetRow(sheet, last.row)
     IN /\ r.name = Empty => r.id = 0
        /\ r.name # Empty => r.id = RemoteId(labels, r.name)


\* C29, for an old name that is not a system label: after a row change on
\* a row whose id cell matched, with no remote call failing, the id cell is
\* the remote id of the name now in the name cell (empty when the remote
\* store has no such label), and is empty when the name cell is empty.
C29_RowIdFollowsUserName ==
  (last.kind = "edit" /\ Clean /\ IdMatchedBefore
     /\ ~\E l \in Range(last.pre.labels) : l.name = last.old /\ l.type = "system")
  => LET r == GetRow(sheet, last.row)
     IN /\ r.name = Empty => r.id = 0
        /\ r.name # Empty => r.id = RemoteId(labels, r.name)


\* a rename of a user label on a row whose id cell matched: the id cell
\* has changed to the id of the new label
C29_Witness ==
  /\ last.kind = "edit" /\ Clean /\ IdMatchedBefore
  /\ \E l \in Range(last.pre.labels) : l.name = last.old /\ l.type = "user"
  /\ last.new # Empty /\ last.new # last.old
  /\ GetRow(sheet, last.row).name = last.new
  /\ GetRow(sheet, last.row).id # GetRow(last.pre.sheet, last.row).id
  /\ GetRow(sheet, last.row).id = RemoteId(labels, last.new)


\* every label of a store has its proper ancestors in the store
Closed(ls) == \A n \in NamesOf(ls) : ProperAncestors(n) \subseteq NamesOf(ls)

\* C30 as stated: a row change or a sync pass that starts on a remote
\* store closed under proper ancestors leaves it closed.
C30_RemoteClosurePreserved ==
  (last.kind \in {"edit", "sync", "autoSync"} /\ Closed(last.pre.labels)) => Closed(labels)


\* the last edit is a rename of a label found remotely in which, after the
\* create call for the new name, a batch add, a batch remove or the fetch
\* of a label object raised
RenameStepRaised ==
  /\ RenameOfFound /\ last.failed
  /\ \E i \in 1..Len(last.calls) : last.calls[i].op = "create" /\ last.calls[i].name = last.new
  /\ \E k \in {"getLabel", "add", "remove"}, o \in 1..MaxFailOcc :
        LET c == EditRun(k, o)
        IN c.failed /\ SameOutcome(c) /\ last.reports = c.reports

\* the last edit is a rename of a label found remotely in which, after the
\* create call for the new name, no label object was returned for a name
RenameHandleMissing ==
  /\ RenameOfFound /\ ~last.failed
  /\ \E i \in 1..Len(last.calls) : last.calls[i].op = "create" /\ last.calls[i].name = last.new
  /\ \E l \in Range(last.pre.labels) : l.name \in {last.old, last.new} /\ l.type = "system"

\* the old label is still there and every thread that carried it carries
\* it or the new label
TaggingKept ==
  LET oldId == RemoteId(last.pre.labels, last.old)
  IN /\ last.old \in NamesOf(labels)
     /\ RemoteId(labels, last.old) = oldId
     /\ \A i \in 1..Len(last.calls) : last.calls[i].op # "delete"
     /\ last.pre.tags[oldId] \subseteq Carried(tags, oldId) \cup Carried(tags, NewLabelId)

\* the handler ended in its catch: the error is logged and shown in a toast
ShownToUser == last.reports[Len(last.reports)] = Rep("error", last.new, 0)

\* C31 as stated: when a step of a rename fails after the new label is
\* created, the old label is kept, no thread loses both labels, and the
\* failure is shown to the user.
C31_FailedRenameKeepsTagsAndTells ==
  (RenameStepRaised \/ RenameHandleMissing) => (TaggingKept /\ ~last.escaped /\ ShownToUser)

\* C31, telling the two kinds of failure apart: in both the old label is
\* kept and no thread loses both labels; a raised call ends in the catch,
\* which logs the error and shows it in a toast; a missing label object is
\* logged only.
C31_FailedRenameKeepsTags ==
  /\ RenameStepRaised => (TaggingKept /\ ~last.escaped /\ ShownToUser)
  /\ RenameHandleMissing
       => /\ TaggingKept /\ ~last.escaped
          /\ last.reports[Len(last.reports)] = Rep("logError", last.new, 0)

\* the second add batch raised: the first BATCH_SIZE threads carry both
\* labels, the others the old one only
C31_Witness ==
  /\ RenameStepRaised
  /\ Cardinality(last.pre.tags[RemoteId(last.pre.labels, last.old)]) > BATCH_SIZE
  /\ Cardinality(Carried(tags, NewLabelId)) = BATCH_SIZE
  /\ Len(CallsOf("remove")) = 0


\* the calls of the last operation that write the name cell of a row for a
\* remote label or an ancestor: every name write of a sync pass and of a
\* create or rename intent (a delete intent writes a name only to restore
\* the edited cell)
Appends ==
  {i \in 1..Len(last.calls) :
     /\ last.calls[i].op = "setName"
     /\ \/ last.kind \in {"sync", "autoSync"}
        \/ last.kind = "edit" /\ last.new # Empty}

\* the rows with content when the operation started; an edit trigger
\* starts on the sheet with the edited cell already changed
HadContent ==
  {r \in 1..Len(last.pre.sheet) : ~RowBlank(last.pre.sheet[r])}
    \cup (IF last.kind = "edit" /\ last.new # Empty THEN {last.row} ELSE {})

\* C32: whatever remote call fails, a row written for an adopted remote
\* label or for an ancestor lies below every row that had content when the
\* operation started, two such writes of one operation go to different
\* rows, and the name cells of the rows that had content are as they were
\* (the edited cell holding the value typed).
C32_AppendsBelowContent ==
  last.kind \in {"sync", "autoSync", "edit"}
  => /\ \A i \in Appends : \A r \in HadContent : last.calls[i].row > r
     /\ \A i, j \in Appends : i # j => last.calls[i].row # last.calls[j].row
     /\ Appends # {}
          => \A r \in HadContent :
                GetRow(sheet, r).name = (IF last.kind = "edit" /\ r = last.row THEN last.new
                                         ELSE GetRow(last.pre.sheet, r).name)

\* an edit typing a/b/c below the rows of the sheet appended a row for a
\* and a row for a/b
C32_Witness ==
  /\ last.kind = "edit" /\ Cardinality(Appends) = 2
  /\ Len(last.pre.sheet) > HEADER_ROW
  /\ \A i \in Appends : last.calls[i].row > last.row /\ last.calls[i].row > Len(last.pre.sheet)


\* C33 as stated: a settings item changes its own setting and nothing
\* else: it issues no remote call, writes no cell, runs no sync pass, and
\* leaves labels, tags and sheet as they were.
C33_TogglesLeaveStores ==
  last.kind \in {"toggleEditTrigger", "toggleAutoSync"}
  => /\ last.calls = << >>
     /\ labels = last.pre.labels /\ tags = last.pre.tags /\ sheet = last.pre.sheet
     /\ \A i \in 1..Len(last.reports) : last.reports[i].kind # "synced"
     /\ last.kind = "toggleEditTrigger"
          => settings = [last.pre.settings EXCEPT !.editTrigger = ~@]
     /\ last.kind = "toggleAutoSync"
          => settings = [last.pre.settings EXCEPT !.autoSyncEnabled = ~@]
====
